---- MODULE Spec2Model ----
(***************************************************************************)
(* Verification model of the truchain clip-verification engine.            *)
(*                                                                         *)
(*   SpecFM      fingerprint pipeline: VideoVerifier.find_matches          *)
(*               (src/verification.py) followed by the scattered-timestamp *)
(*               analysis of legacy_chromaprint/run_frankenstein_tests.py  *)
(*   SpecSplice  the splice check of analyze_frankenstein_v3.py applied to *)
(*               bounded timestamp lists                                   *)
(*   SpecVerify  one POST /verify request of ai-layer/api_server.py, with  *)
(*               SlidingWindowMatcher and SpeakerVerifier                  *)
(*   SpecHybrid  one call of HybridVerifier.verify_clip                    *)
(*               (src/hybrid_verification.py) with TextMatcher             *)
(*   SpecLocalize    one call of SlidingWindowMatcher.find_best_match on   *)
(*               bounded transcriptions and thresholds                     *)
(*   SpecSimilarity  one call of VideoVerifier.calculate_similarity on     *)
(*               bounded fingerprint records                               *)
(*   SpecStore   calls of VideoDatabase.add_video (src/video_processor.py) *)
(*   SpecVideos  POST /videos/add, DELETE /videos/{name} and               *)
(*               POST /videos/preprocess with their background tasks       *)
(*   SpecScan    find_matches on 32-bit fingerprints and thresholds from 0 *)
(*   SpecSession several POST /verify requests with GET /verify/{id};      *)
(*               SpecSessionLive adds the fairness of handler and tasks    *)
(*                                                                         *)
(* Similarities are exact rationals <<n, d>> (n/d, d > 0); thresholds are  *)
(* percentages <<t, 100>>.  Python indexes from 0, TLA+ from 1: a Python   *)
(* index i is element i + 1 of the sequence.                               *)
(***************************************************************************)
EXTENDS Integers, Sequences, FiniteSets, TLC

VARIABLES
    pc,                       \* position of the running script / request
    db,                       \* VideoDatabase.data['videos']
    db_file,                  \* the videos persisted in the JSON database file
    clip_fingerprints,        \* fingerprints of the submitted clip
    threshold,                \* similarity threshold, in percent
    min_consecutive_matches,  \* minimum run length
    matches,                  \* result of find_matches
    timestamps,               \* the list the splice analysis inspects
    verdict,                  \* outcome of the analysis
    video_dir,                \* file names in VIDEO_DIRECTORY, in listing order
    cache,                    \* file names with a cached transcription
    uploads,                  \* temp files present in UPLOAD_DIRECTORY
    request,                  \* locals of the running verify_clip handler
    response,                 \* what the handler answered
    verification_cache,       \* verification_id -> stored result
    background_tasks          \* tasks queued to run after the response

fmvars == <<db, db_file, clip_fingerprints, threshold, min_consecutive_matches,
            matches, timestamps, verdict>>
apivars == <<video_dir, cache, uploads, request, response, verification_cache,
             background_tasks>>
vars == <<pc, fmvars, apivars>>

(***************************************************************************)
(* Bounds of the model.                                                    *)
(***************************************************************************)
MaxClipLen == 4
MaxVideos == 2
MaxTimestamps == 3

(***************************************************************************)
(* Program constants.                                                      *)
(***************************************************************************)
INTERVAL_SECONDS == 5
BITS_PER_INT == 32
GAP_THRESHOLD == 300

(***************************************************************************)
(* Rational arithmetic for similarity scores.                              *)
(***************************************************************************)
\* >= read the wrong way round
Geq_Reversed(x, y) == y[1] * x[2] >= x[1] * y[2]

Geq(x, y) == x[1] * y[2] >= y[1] * x[2]
Gt(x, y) == x[1] * y[2] > y[1] * x[2]
Add(x, y) == IF x[2] = y[2] THEN <<x[1] + y[1], x[2]>>
             ELSE <<x[1] * y[2] + y[1] * x[2], x[2] * y[2]>>
Pct(t) == <<t, 100>>
Zero == <<0, 1>>

Min2(a, b) == IF a < b THEN a ELSE b

\* Python sequence indexing, negative indices counting from the end.
PyAt(seq, i) == IF i >= 0 THEN seq[i + 1] ELSE seq[Len(seq) + i + 1]
\* Python slice seq[i:]
PyFrom(seq, i) == SubSeq(seq, i + 1, Len(seq))

\* seq[lo:hi] for Python indices, negative ones counted from the end
PySlice(seq, lo, hi) ==
    LET norm(i) == IF i < 0 THEN (IF Len(seq) + i < 0 THEN 0 ELSE Len(seq) + i)
                   ELSE Min2(i, Len(seq))
    IN  IF norm(lo) >= norm(hi) THEN <<>> ELSE SubSeq(seq, norm(lo) + 1, norm(hi))

(***************************************************************************)
(* VideoVerifier.calculate_similarity                                      *)
(***************************************************************************)
\* counts only the bits set in a and clear in b
RECURSIVE XorPopcount_OneSided(_, _)
XorPopcount_OneSided(a, b) ==
    IF a = 0 /\ b = 0 THEN 0
    ELSE (IF a % 2 = 1 /\ b % 2 = 0 THEN 1 ELSE 0)
         + XorPopcount_OneSided(a \div 2, b \div 2)

\* bin(a ^ b).count('1') for non-negative integers
RECURSIVE XorPopcount(_, _)
XorPopcount(a, b) ==
    IF a = 0 /\ b = 0 THEN 0
    ELSE (IF a % 2 # b % 2 THEN 1 ELSE 0) + XorPopcount(a \div 2, b \div 2)

\* A fingerprint element is an unsigned 32-bit integer.  An element e with
\* the top bit set is written e - 2^32 (so -1 stands for 4294967295): the top
\* bit is the sign and the low 31 bits are e - 2^31.
MAX_INT31 == 2147483647
Low31(e) == IF e < 0 THEN (e + MAX_INT31) + 1 ELSE e

\* bin(a ^ b).count('1') for two 32-bit elements
BitDifferences(a, b) ==
    (IF (a < 0) # (b < 0) THEN 1 ELSE 0) + XorPopcount(Low31(a), Low31(b))

RECURSIVE DifferentBits(_, _, _)
DifferentBits(arr1, arr2, n) ==
    IF n = 0 THEN 0
    ELSE DifferentBits(arr1, arr2, n - 1) + BitDifferences(arr1[n], arr2[n])

\* fp.get('fingerprint', []) and fp.get('hash', '')
GetFingerprint(fp) == IF "fingerprint" \in DOMAIN fp THEN fp.fingerprint ELSE <<>>
GetHash(fp) == IF "hash" \in DOMAIN fp THEN fp.hash ELSE <<>>

HashDifferences(h1, h2) == Cardinality({i \in 1..Len(h1) : h1[i] # h2[i]})

calculate_similarity(fp1, fp2) ==
    LET arr1 == GetFingerprint(fp1)
        arr2 == GetFingerprint(fp2)
        min_len == Min2(Len(arr1), Len(arr2))
        total_bits == BITS_PER_INT * min_len
    IN  IF Len(arr1) = 0 \/ Len(arr2) = 0
        THEN LET hash1 == GetHash(fp1)
                 hash2 == GetHash(fp2)
             IN  IF Len(hash1) # Len(hash2) THEN Zero
                 ELSE IF Len(hash1) = 0 THEN "ZeroDivisionError"
                 ELSE <<Len(hash1) - HashDifferences(hash1, hash2), Len(hash1)>>
        ELSE <<total_bits - DifferentBits(arr1, arr2, min_len), total_bits>>

(***************************************************************************)
(* VideoVerifier.find_matches                                              *)
(***************************************************************************)
\* lines 131-143: the strict-> argmax over the reference fingerprints
RECURSIVE BestMatchFrom(_, _, _, _)
BestMatchFrom(clip_fp, video_fps, video_idx, best) ==
    IF video_idx >= Len(video_fps) THEN best
    ELSE LET similarity == calculate_similarity(clip_fp, PyAt(video_fps, video_idx))
         IN  BestMatchFrom(clip_fp, video_fps, video_idx + 1,
                           IF Gt(similarity, best.similarity)
                           THEN [similarity |-> similarity, idx |-> video_idx]
                           ELSE best)

BestMatch(clip_fp, video_fps) ==
    BestMatchFrom(clip_fp, video_fps, 0, [similarity |-> Zero, idx |-> -1])

\* ExtendRun without the break of line 168: a failing position is skipped
\* and the positions after it are still counted.
RECURSIVE ExtendRun_NoBreak(_, _, _, _, _, _, _)
ExtendRun_NoBreak(clip, video_fps, clip_idx, best_idx, offset, t, acc) ==
    IF offset >= Min2(Len(clip) - clip_idx, Len(video_fps) - best_idx) THEN acc
    ELSE LET similarity == calculate_similarity(PyAt(clip, clip_idx + offset),
                                                PyAt(video_fps, best_idx + offset))
         IN  ExtendRun_NoBreak(clip, video_fps, clip_idx, best_idx, offset + 1, t,
                 IF Geq(similarity, Pct(t))
                 THEN [consecutive_matches |-> acc.consecutive_matches + 1,
                       total_similarity |-> Add(acc.total_similarity, similarity)]
                 ELSE acc)

\* lines 152-168: extension of a run; acc = [consecutive_matches, total_similarity]
RECURSIVE ExtendRun(_, _, _, _, _, _, _)
ExtendRun(clip, video_fps, clip_idx, best_idx, offset, t, acc) ==
    IF offset >= Min2(Len(clip) - clip_idx, Len(video_fps) - best_idx) THEN acc
    ELSE LET similarity == calculate_similarity(PyAt(clip, clip_idx + offset),
                                                PyAt(video_fps, best_idx + offset))
         IN  IF Geq(similarity, Pct(t))
             THEN ExtendRun(clip, video_fps, clip_idx, best_idx, offset + 1, t,
                            [consecutive_matches |-> acc.consecutive_matches + 1,
                             total_similarity |-> Add(acc.total_similarity, similarity)])
             ELSE acc

\* lines 130-187: the loop over the clip for one video.  The result tells
\* whether a Match was appended, whether building it raised IndexError, and
\* what clip_fingerprints is bound to when the loop is left (line 186
\* rebinds it, line 187 leaves the loop).
RECURSIVE ScanVideo(_, _, _, _, _)
ScanVideo(clip, video, clip_idx, t, m) ==
    IF clip_idx >= Len(clip) THEN [found |-> FALSE, raised |-> FALSE, clip |-> clip]
    ELSE
      LET clip_fp == PyAt(clip, clip_idx)
          video_fps == video.fingerprints
          best == BestMatch(clip_fp, video_fps)
      IN  IF Geq(best.similarity, Pct(t))
          THEN LET run == ExtendRun(clip, video_fps, clip_idx, best.idx, 1, t,
                                    [consecutive_matches |-> 1,
                                     total_similarity |-> best.similarity])
               IN  IF run.consecutive_matches >= m /\ best.idx + Len(video_fps) < 0
                   THEN \* line 176: video_fps[-1] of an empty list
                        [found |-> FALSE, raised |-> TRUE, clip |-> clip]
                   ELSE IF run.consecutive_matches >= m
                   THEN [found |-> TRUE,
                         raised |-> FALSE,
                         match |->
                           [video_id |-> video.id,
                            video_title |-> video.title,
                            clip_timestamp |-> clip_fp.timestamp,
                            original_timestamp |-> PyAt(video_fps, best.idx).timestamp,
                            confidence |-> <<run.total_similarity[1],
                                             run.total_similarity[2]
                                               * run.consecutive_matches>>,
                            fingerprint_matches |-> run.consecutive_matches],
                         clip |-> PyFrom(clip, clip_idx + run.consecutive_matches)]
                   ELSE ScanVideo(clip, video, clip_idx + 1, t, m)
          ELSE ScanVideo(clip, video, clip_idx + 1, t, m)

\* lines 125-187: the loop over all videos, in discovery order
RECURSIVE ScanAllVideos(_, _, _, _, _, _)
ScanAllVideos(all_videos, v, clip, t, m, found) ==
    IF v > Len(all_videos) THEN [raised |-> FALSE, matches |-> found]
    ELSE LET r == ScanVideo(clip, all_videos[v], 0, t, m)
         IN  IF r.raised THEN [raised |-> TRUE, matches |-> found]
             ELSE ScanAllVideos(all_videos, v + 1, r.clip, t, m,
                                IF r.found THEN Append(found, r.match) ELSE found)

\* a descending sort that puts a later equal element first
RECURSIVE InsertByConfidence_Unstable(_, _)
InsertByConfidence_Unstable(sorted, x) ==
    IF sorted = <<>> THEN <<x>>
    ELSE IF ~Gt(Head(sorted).confidence, x.confidence) THEN <<x>> \o sorted
    ELSE <<Head(sorted)>> \o InsertByConfidence_Unstable(Tail(sorted), x)

\* list.sort(key=confidence, reverse=True): stable, descending
RECURSIVE InsertByConfidence(_, _)
InsertByConfidence(sorted, x) ==
    IF sorted = <<>> THEN <<x>>
    ELSE IF Gt(x.confidence, sorted[Len(sorted)].confidence)
         THEN Append(InsertByConfidence(SubSeq(sorted, 1, Len(sorted) - 1), x),
                     sorted[Len(sorted)])
         ELSE Append(sorted, x)

RECURSIVE SortByConfidence(_)
SortByConfidence(ms) ==
    IF ms = <<>> THEN <<>>
    ELSE InsertByConfidence(SortByConfidence(SubSeq(ms, 1, Len(ms) - 1)), ms[Len(ms)])

\* the list returned, or the exception that leaves the function
find_matches(all_videos, clip, t, m) ==
    LET scan == ScanAllVideos(all_videos, 1, clip, t, m, <<>>)
    IN  IF scan.raised THEN [raised |-> "IndexError"]
        ELSE SortByConfidence(scan.matches)

(***************************************************************************)
(* SlidingWindowMatcher (src/ai-layer/sliding_window_matcher.py)           *)
(* Strings are sequences of one-character strings; a word is a string.     *)
(***************************************************************************)
\* length of the common run of a[i..] and b[j..] inside a[..ahi], b[..bhi]
\* (1-based, inclusive bounds)
RECURSIVE CommonRun(_, _, _, _, _, _)
CommonRun(a, b, i, j, ahi, bhi) ==
    IF i > ahi \/ j > bhi THEN 0
    ELSE IF a[i] # b[j] THEN 0
    ELSE 1 + CommonRun(a, b, i + 1, j + 1, ahi, bhi)

\* difflib find_longest_match(alo, ahi, blo, bhi) without junk: the longest
\* matching block; of those the one starting earliest in a, then earliest in b
find_longest_match(a, b, alo, ahi, blo, bhi) ==
    LET size(i, j) == CommonRun(a, b, i, j, ahi, bhi)
        Starts == (alo..ahi) \X (blo..bhi)
        best == IF Starts = {} THEN 0
                ELSE CHOOSE k \in 0..(ahi - alo + 1) :
                       /\ \E p \in Starts : size(p[1], p[2]) = k
                       /\ \A p \in Starts : size(p[1], p[2]) <= k
    IN  IF best = 0 THEN [i |-> alo, j |-> blo, size |-> 0]
        ELSE LET bi == CHOOSE i \in alo..ahi :
                         /\ \E j \in blo..bhi : size(i, j) = best
                         /\ \A i2 \in alo..(i - 1) : \A j \in blo..bhi : size(i2, j) < best
                 bj == CHOOSE j \in blo..bhi :
                         /\ size(bi, j) = best
                         /\ \A j2 \in blo..(j - 1) : size(bi, j2) < best
             IN  [i |-> bi, j |-> bj, size |-> best]

\* difflib get_matching_blocks: total size of the matching blocks
RECURSIVE MatchingSize(_, _, _, _, _, _)
MatchingSize(a, b, alo, ahi, blo, bhi) ==
    IF alo > ahi \/ blo > bhi THEN 0
    ELSE LET x == find_longest_match(a, b, alo, ahi, blo, bhi)
         IN  IF x.size = 0 THEN 0
             ELSE x.size
                  + MatchingSize(a, b, alo, x.i - 1, blo, x.j - 1)
                  + MatchingSize(a, b, x.i + x.size, ahi, x.j + x.size, bhi)

\* SequenceMatcher(None, text1, text2).ratio() = 2.0 * M / T
calculate_text_similarity(text1, text2) ==
    IF Len(text1) + Len(text2) = 0 THEN <<1, 1>>
    ELSE <<2 * MatchingSize(text1, text2, 1, Len(text1), 1, Len(text2)),
           Len(text1) + Len(text2)>>

\* ' '.join(words)
RECURSIVE Join(_)
Join(words) ==
    IF words = <<>> THEN <<>>
    ELSE IF Len(words) = 1 THEN words[1]
    ELSE words[1] \o <<" ">> \o Join(Tail(words))

\* the sliding window updating on >= : the latest maximum wins
RECURSIVE SlideFrom_LastWins(_, _, _, _)
SlideFrom_LastWins(clip_words, video_words, start_idx, best) ==
    IF start_idx > Len(video_words) - Len(clip_words) THEN best
    ELSE LET window_words == SubSeq(video_words, start_idx + 1, start_idx + Len(clip_words))
             similarity == calculate_text_similarity(Join(clip_words), Join(window_words))
         IN  SlideFrom_LastWins(clip_words, video_words, start_idx + 1,
                       IF similarity[1] * best.similarity[2]
                             >= best.similarity[1] * similarity[2]
                       THEN [similarity |-> similarity, position |-> start_idx]
                       ELSE best)

\* lines 96-109: the sliding window with the strict > update
RECURSIVE SlideFrom(_, _, _, _)
SlideFrom(clip_words, video_words, start_idx, best) ==
    IF start_idx > Len(video_words) - Len(clip_words) THEN best
    ELSE LET window_words == SubSeq(video_words, start_idx + 1, start_idx + Len(clip_words))
             similarity == calculate_text_similarity(Join(clip_words), Join(window_words))
         IN  SlideFrom(clip_words, video_words, start_idx + 1,
                       IF Gt(similarity, best.similarity)
                       THEN [similarity |-> similarity, position |-> start_idx]
                       ELSE best)

None == [none |-> TRUE]

\* SlidingWindowMatcher.find_best_match; t is self.similarity_threshold
find_best_match(clip_transcription, video_transcription, t) ==
    LET clip_words == clip_transcription.normalized_text
        video_words == video_transcription.normalized_text
        clip_word_count == Len(clip_words)
        video_word_count == Len(video_words)
    IN  IF clip_word_count = 0 \/ video_word_count = 0 THEN None
        ELSE IF clip_word_count > video_word_count THEN None
        ELSE
          LET best == SlideFrom(clip_words, video_words, 0,
                                [similarity |-> Zero, position |-> -1])
              start_word_index == best.position
              end_word_index == best.position + clip_word_count - 1
              video_word_list == video_transcription.words
          IN  IF ~Geq(best.similarity, Pct(t)) THEN None
              ELSE IF start_word_index >= Len(video_word_list)
                        \/ end_word_index >= Len(video_word_list) THEN None
              ELSE IF Len(video_word_list) + start_word_index < 0
                   THEN [raised |-> "IndexError"]
              ELSE [video_name |-> video_transcription.video_name,
                    start_time |-> PyAt(video_word_list, start_word_index).start,
                    end_time |-> PyAt(video_word_list, end_word_index).end,
                    similarity |-> best.similarity,
                    start_word_index |-> start_word_index,
                    end_word_index |-> end_word_index,
                    matched_text |-> Join(PySlice(video_words, start_word_index,
                                                  end_word_index + 1)),
                    clip_word_count |-> clip_word_count,
                    duration |-> PyAt(video_word_list, end_word_index).end
                                   - PyAt(video_word_list, start_word_index).start]

\* a descending sort that puts a later equal element first
RECURSIVE InsertBySimilarity_Unstable(_, _)
InsertBySimilarity_Unstable(sorted, x) ==
    IF sorted = <<>> THEN <<x>>
    ELSE IF ~Gt(Head(sorted).similarity, x.similarity) THEN <<x>> \o sorted
    ELSE <<Head(sorted)>> \o InsertBySimilarity_Unstable(Tail(sorted), x)

\* matches.sort(key=similarity, reverse=True): stable, descending
RECURSIVE InsertBySimilarity(_, _)
InsertBySimilarity(sorted, x) ==
    IF sorted = <<>> THEN <<x>>
    ELSE IF Gt(x.similarity, sorted[Len(sorted)].similarity)
         THEN Append(InsertBySimilarity(SubSeq(sorted, 1, Len(sorted) - 1), x),
                     sorted[Len(sorted)])
         ELSE Append(sorted, x)

RECURSIVE SortBySimilarity(_)
SortBySimilarity(ms) ==
    IF ms = <<>> THEN <<>>
    ELSE InsertBySimilarity(SortBySimilarity(SubSeq(ms, 1, Len(ms) - 1)), ms[Len(ms)])

RECURSIVE CollectMatches(_, _, _, _)
CollectMatches(clip_transcription, video_transcriptions, i, t) ==
    IF i > Len(video_transcriptions) THEN <<>>
    ELSE LET match == find_best_match(clip_transcription, video_transcriptions[i], t)
         IN  (IF match # None THEN <<match>> ELSE <<>>)
               \o CollectMatches(clip_transcription, video_transcriptions, i + 1, t)

\* SlidingWindowMatcher.search_all_videos
search_all_videos(clip_transcription, video_transcriptions, t) ==
    SortBySimilarity(CollectMatches(clip_transcription, video_transcriptions, 1, t))

(***************************************************************************)
(* Splice analysis                                                         *)
(***************************************************************************)
\* max(timestamps[i+1] - timestamps[i] for i in range(len(timestamps)-1))
RECURSIVE MaxGapFrom(_, _, _)
MaxGapFrom(ts, i, best) ==
    IF i >= Len(ts) THEN best
    ELSE LET gap == ts[i + 1] - ts[i]
         IN  MaxGapFrom(ts, i + 1, IF gap > best THEN gap ELSE best)

\* the largest jump taken without its sign
max_gap_Absolute(ts) ==
    LET gaps == {IF ts[i + 1] >= ts[i] THEN ts[i + 1] - ts[i] ELSE ts[i] - ts[i + 1] :
                    i \in 1..(Len(ts) - 1)}
    IN  CHOOSE g \in gaps : \A h \in gaps : g >= h

max_gap(ts) == MaxGapFrom(ts, 2, ts[2] - ts[1])

\* the splice check with >= in place of > at line 123
detect_splicing_GapInclusive(ts) ==
    IF Len(ts) > 1 /\ max_gap(ts) >= GAP_THRESHOLD THEN "EDITED" ELSE "CONTINUOUS"

\* analyze_frankenstein_v3.py lines 113-136
detect_splicing(ts) ==
    IF Len(ts) > 1 /\ max_gap(ts) > GAP_THRESHOLD THEN "EDITED" ELSE "CONTINUOUS"

\* run_frankenstein_tests.py lines 102-144
FrankensteinVerdict(ms) ==
    IF Len(ms) = 0 THEN "No false positive"
    ELSE IF Len(ms) > 1
         THEN IF max_gap([i \in 1..Len(ms) |-> ms[i].original_timestamp]) > GAP_THRESHOLD
              THEN "Editing detected via scattered timestamps"
              ELSE "Appears continuous"
         ELSE "Partial detection - most segments rejected"

(***************************************************************************)
(* Inputs                                                                  *)
(***************************************************************************)
\* Raw fingerprint integers: 255 and 254 differ in one bit, 65280 differs
\* from both in 16 resp. 15 bits of 32.
FpValues == {255, 254, 65280}

SeqsUpTo(S, n) == UNION {[1..k -> S] : k \in 0..n}

\* AudioFingerprinter: one fingerprint per INTERVAL_SECONDS
Fingerprints(raw) ==
    [i \in 1..Len(raw) |-> [timestamp |-> (i - 1) * INTERVAL_SECONDS,
                            fingerprint |-> <<raw[i]>>]]

\* The reference recordings the database is filled from.
ReferenceAudio ==
    [v1 |-> <<255, 65280, 65280, 255>>,
     v2 |-> <<254, 65280>>,
     v3 |-> <<255, 65280>>,
     v4 |-> <<65280, 255, 254>>,
     v5 |-> <<>>]

Video(id) == [id |-> id, title |-> id, fingerprints |-> Fingerprints(ReferenceAudio[id])]

Databases ==
    {d \in SeqsUpTo(DOMAIN ReferenceAudio, MaxVideos) :
        \A i, j \in 1..Len(d) : i # j => d[i] # d[j]}

Thresholds == {85, 100}
MinRuns == {1, 2}

\* the parts of the state a specification does not use
ApiIdle ==
    /\ video_dir = <<>>
    /\ cache = {}
    /\ uploads = {}
    /\ request = None
    /\ response = None
    /\ verification_cache = <<>>
    /\ background_tasks = <<>>

FmIdle ==
    /\ db = <<>>
    /\ db_file = <<>>
    /\ clip_fingerprints = <<>>
    /\ threshold = 85
    /\ min_consecutive_matches = 2
    /\ matches = <<>>
    /\ timestamps = <<>>
    /\ verdict = "none"

(***************************************************************************)
(* SpecFM                                                                  *)
(***************************************************************************)
InitFM ==
    /\ pc = "find"
    /\ ApiIdle
    /\ \E d \in Databases : db = [i \in 1..Len(d) |-> Video(d[i])]
    /\ db_file = db
    /\ \E raw \in SeqsUpTo(FpValues, MaxClipLen) : clip_fingerprints = Fingerprints(raw)
    /\ threshold \in Thresholds
    /\ min_consecutive_matches \in MinRuns
    /\ matches = <<>>
    /\ timestamps = <<>>
    /\ verdict = "none"

\* VideoVerifier.find_matches
FindMatches ==
    /\ pc = "find"
    /\ LET scan == ScanAllVideos(db, 1, clip_fingerprints, threshold,
                                  min_consecutive_matches, <<>>)
       IN  IF scan.raised
           THEN /\ verdict' = "IndexError"
                /\ pc' = "raised"
                /\ UNCHANGED matches
           ELSE /\ matches' = find_matches(db, clip_fingerprints, threshold,
                                           min_consecutive_matches)
                /\ pc' = "analyze"
                /\ UNCHANGED verdict
    /\ UNCHANGED <<db, db_file, clip_fingerprints, threshold, min_consecutive_matches,
                   timestamps>>
    /\ UNCHANGED apivars

\* run_frankenstein_tests.py: the analysis of the matches returned
AnalyzeMatches ==
    /\ pc = "analyze"
    /\ timestamps' = IF Len(matches) > 1
                     THEN [i \in 1..Len(matches) |-> matches[i].original_timestamp]
                     ELSE <<>>
    /\ verdict' = FrankensteinVerdict(matches)
    /\ pc' = "done"
    /\ UNCHANGED <<db, db_file, clip_fingerprints, threshold, min_consecutive_matches,
                   matches>>
    /\ UNCHANGED apivars

NextFM == FindMatches \/ AnalyzeMatches

SpecFM == InitFM /\ [][NextFM]_vars

(***************************************************************************)
(* Properties of the fingerprint pipeline                                  *)
(***************************************************************************)
Scanned == pc \in {"analyze", "done"}

\* positions recovered from the timestamps (one fingerprint per interval)
ClipIdx(mt) == mt.clip_timestamp \div INTERVAL_SECONDS
RefIdx(mt) == mt.original_timestamp \div INTERVAL_SECONDS
VideoOf(mt) == CHOOSE v \in {db[i] : i \in 1..Len(db)} : v.id = mt.video_id
MatchSet == {matches[i] : i \in 1..Len(matches)}

\* similarity of the aligned pair k positions after (i, j) clears the threshold
AlignedPass(video, i, j, k) ==
    /\ i + k < Len(clip_fingerprints)
    /\ j + k < Len(video.fingerprints)
    /\ Geq(calculate_similarity(PyAt(clip_fingerprints, i + k),
                                PyAt(video.fingerprints, j + k)), Pct(threshold))

\* number of consecutive aligned positions from (i, j) that clear the threshold
RECURSIVE RunLength(_, _, _, _)
RunLength(video, i, j, k) ==
    IF AlignedPass(video, i, j, k) THEN RunLength(video, i, j, k + 1) ELSE k

\* the Run Builder of the design would emit a run starting at clip index i
QualifiesAt(video, i) ==
    /\ i < Len(clip_fingerprints)
    /\ LET best == BestMatch(PyAt(clip_fingerprints, i), video.fingerprints)
       IN  /\ Geq(best.similarity, Pct(threshold))
           /\ RunLength(video, i, best.idx, 0) >= min_consecutive_matches

\* C1: find_matches emits every qualifying run of a reference: after a run
\* that starts at clip index i with length L the search resumes at i + L, so
\* whenever a later clip position still qualifies in the same reference,
\* that reference has a further run starting at or after i + L.
C1_EveryQualifyingRunEmitted ==
    Scanned =>
      \A mt \in MatchSet :
        \A i \in 0..(Len(clip_fingerprints) - 1) :
          (i >= ClipIdx(mt) + mt.fingerprint_matches /\ QualifiesAt(VideoOf(mt), i))
            => \E m2 \in MatchSet :
                 /\ m2.video_id = mt.video_id
                 /\ ClipIdx(m2) >= ClipIdx(mt) + mt.fingerprint_matches

\* the runs of one video among a list of matches, in the order listed
RECURSIVE RunsOf(_, _)
RunsOf(ms, id) ==
    IF ms = <<>> THEN <<>>
    ELSE IF ms[1].video_id = id THEN <<ms[1]>> \o RunsOf(Tail(ms), id)
         ELSE RunsOf(Tail(ms), id)

\* C2: the runs reported for a reference entry depend only on the clip and
\* on that entry: they are the runs a scan of that entry alone reports,
\* whatever else the store holds and in whatever order.
C2_RunsIndependentOfOtherReferences ==
    Scanned =>
      \A v \in 1..Len(db) :
        RunsOf(matches, db[v].id)
          = find_matches(<<db[v]>>, clip_fingerprints, threshold, min_consecutive_matches)

\* C3: the length of every emitted run is the number of consecutive aligned
\* positions k = 0, 1, ... (within both sequences) whose similarity clears
\* the threshold; nothing after the first failing position is counted.
C3_RunStopsAtFirstFailure ==
    Scanned =>
      \A mt \in MatchSet :
        LET video == VideoOf(mt)
            i == ClipIdx(mt)
            j == RefIdx(mt)
            L == mt.fingerprint_matches
        IN  /\ \A k \in 0..(L - 1) : AlignedPass(video, i, j, k)
            /\ ~AlignedPass(video, i, j, L)

\* a run that stopped at a failing position although the position after it
\* passes again (similarities high, ..., low, high)
C3_Witness ==
    /\ Scanned
    /\ \E mt \in MatchSet :
         LET video == VideoOf(mt)
             i == ClipIdx(mt)
             j == RefIdx(mt)
             L == mt.fingerprint_matches
         IN  /\ L >= 2
             /\ i + L < Len(clip_fingerprints)
             /\ j + L < Len(video.fingerprints)
             /\ ~AlignedPass(video, i, j, L)
             /\ AlignedPass(video, i, j, L + 1)

\* matches ordered by clip-side time
RECURSIVE InsertByClipTime(_, _)
InsertByClipTime(sorted, x) ==
    IF sorted = <<>> THEN <<x>>
    ELSE IF x.clip_timestamp < sorted[Len(sorted)].clip_timestamp
         THEN Append(InsertByClipTime(SubSeq(sorted, 1, Len(sorted) - 1), x),
                     sorted[Len(sorted)])
         ELSE Append(sorted, x)

RECURSIVE SortByClipTime(_)
SortByClipTime(ms) ==
    IF ms = <<>> THEN <<>>
    ELSE InsertByClipTime(SortByClipTime(SubSeq(ms, 1, Len(ms) - 1)), ms[Len(ms)])

C10_NoReferencesDistinctFromNoMatch ==
    (Scanned /\ Len(db) = 0) =>
      \A d \in Databases :
        LET outcome == find_matches([i \in 1..Len(d) |-> Video(d[i])], clip_fingerprints,
                                    threshold, min_consecutive_matches)
        IN  (Len(d) > 0 /\ Len(outcome) = 0) => matches # outcome


(***************************************************************************)
(* SpecSplice                                                              *)
(***************************************************************************)
TimestampValues == {200, 205, 210, 500, 800, 1400}

InitSplice ==
    /\ pc = "splice"
    /\ ApiIdle
    /\ db = <<>>
    /\ db_file = <<>>
    /\ clip_fingerprints = <<>>
    /\ threshold = 85
    /\ min_consecutive_matches = 2
    /\ matches = <<>>
    /\ timestamps \in SeqsUpTo(TimestampValues, MaxTimestamps)
    /\ verdict = "none"

DetectSplicing ==
    /\ pc = "splice"
    /\ verdict' = detect_splicing(timestamps)
    /\ pc' = "spliced"
    /\ UNCHANGED <<db, db_file, clip_fingerprints, threshold, min_consecutive_matches,
                   matches, timestamps>>
    /\ UNCHANGED apivars

NextSplice == DetectSplicing

SpecSplice == InitSplice /\ [][NextSplice]_vars

TEXT_THRESHOLD == 80
SPEAKER_THRESHOLD == 85
MAX_SPEAKER_SECONDS == 10

MaxClipWords == 3
MaxVideoFiles == 2

\* What the transcription provider hears in each reference file: the words
\* of normalized_text and how many of them carry a word-level timestamp.
\* In r1 the words "b c a" are spoken from 120 s to 140 s.
ReferenceSpeech ==
    [r1 |-> [text |-> <<"a", "b", "c", "a">>, timed |-> 4,
             words |-> <<[word |-> "a", start |-> 112, end |-> 118],
                         [word |-> "b", start |-> 120, end |-> 126],
                         [word |-> "c", start |-> 127, end |-> 133],
                         [word |-> "a", start |-> 134, end |-> 140]>>],
     r2 |-> [text |-> <<"a", "b", "a">>, timed |-> 3],
     r3 |-> [text |-> <<"c", "c">>, timed |-> 2],
     r4 |-> [text |-> <<"b", "c", "a">>, timed |-> 2],
     r5 |-> [text |-> <<>>, timed |-> 0]]

Vocabulary == {"a", "b", "c"}

\* the provider's word list: word k spoken from 4(k-1) s to 4(k-1)+3 s
WordList(text, n) ==
    [k \in 1..n |-> [word |-> text[k], start |-> 4 * (k - 1), end |-> 4 * (k - 1) + 3]]

\* WordTranscriber.transcribe_with_word_timestamps, lines 211-227: the result
\* record for a file with the given speech
Transcription(name, text, n) ==
    [video_name |-> name,
     normalized_text |-> [k \in 1..Len(text) |-> <<text[k]>>],
     words |-> WordList(text, n),
     word_count |-> n,
     duration |-> 4 * n]

VideoTranscription(name) ==
    LET speech == ReferenceSpeech[name]
        result == Transcription(name, speech.text, speech.timed)
    IN  IF "words" \in DOMAIN speech
        THEN [result EXCEPT !.words = speech.words,
                            !.duration = speech.words[Len(speech.words)].end]
        ELSE result

VideoListings ==
    {d \in SeqsUpTo(DOMAIN ReferenceSpeech, MaxVideoFiles) :
        \A i, j \in 1..Len(d) : i # j => d[i] # d[j]}

\* speaker similarity computed from the two embeddings, in percent, or the
\* audio extraction / embedding provider raising
SpeakerSimilarities == {50, 84, 85, 100}

SpeakerOutcomes ==
    {[raised |-> TRUE, similarity |-> 0]} \cup
    {[raised |-> FALSE, similarity |-> s] : s \in SpeakerSimilarities}

\* verify_speaker with > in place of >= at line 228
verify_speaker_Strict(similarity, t) ==
    LET verified == Gt(Pct(similarity), Pct(t))
    IN  [verified |-> verified,
         similarity |-> similarity,
         threshold |-> t,
         message |-> IF verified THEN "Same speaker"
                     ELSE "Different speaker - possible deepfake"]

\* SpeakerVerifier.verify_speaker, lines 224-250
verify_speaker(similarity, t) ==
    LET verified == Geq(Pct(similarity), Pct(t))
    IN  [verified |-> verified,
         similarity |-> similarity,
         threshold |-> t,
         message |-> IF verified THEN "Same speaker"
                     ELSE "Different speaker - possible deepfake"]

\* line 266 taking the last match
BestOf_Last(ms) == IF Len(ms) > 0 THEN ms[Len(ms)] ELSE None

\* line 266: best_match = matches[0] if matches else None
BestOf(ms) == IF Len(ms) > 0 THEN ms[1] ELSE None

\* a call that analyses the whole matched window
SpeakerCall_FullWindow(best_match, temp_file_path) ==
    LET duration == best_match.end_time - best_match.start_time
    IN  [clip_path |-> temp_file_path,
         clip_start |-> 0,
         clip_duration |-> duration,
         original_path |-> best_match.video_name,
         original_start |-> best_match.start_time,
         original_duration |-> duration,
         threshold |-> SPEAKER_THRESHOLD]

\* lines 270-287: the arguments of the verify_speaker call
SpeakerCall(best_match, temp_file_path) ==
    LET duration == best_match.end_time - best_match.start_time
        verify_duration == Min2(MAX_SPEAKER_SECONDS, duration)
    IN  [clip_path |-> temp_file_path,
         clip_start |-> 0,
         clip_duration |-> verify_duration,
         original_path |-> best_match.video_name,
         original_start |-> best_match.start_time,
         original_duration |-> verify_duration,
         threshold |-> SPEAKER_THRESHOLD]

\* lines 262-309: speaker verification and the verification type
SpeakerStage(ms, outcome) ==
    IF Len(ms) > 0 /\ BestOf(ms) # None
    THEN IF outcome.raised
         THEN [speaker_verification |->
                  [verified |-> FALSE, error |-> "raised",
                   message |-> "Speaker verification failed"],
               verification_type |-> "content_only"]
         ELSE LET speaker_result == verify_speaker(outcome.similarity, SPEAKER_THRESHOLD)
              IN  [speaker_verification |-> speaker_result,
                   verification_type |-> IF speaker_result.verified THEN "full"
                                         ELSE "content_only"]
    ELSE [speaker_verification |-> None, verification_type |-> "not_verified"]

\* a result that counts a content-only outcome as verified
VerificationResult_VerifiedOnContent(req, ms, stage) ==
    [verification_id |-> req.verification_id,
     verified |-> (stage.verification_type # "not_verified"),
     verification_type |-> stage.verification_type,
     matches |-> ms,
     best_match |-> BestOf(ms),
     speaker_verification |-> stage.speaker_verification,
     clip_info |-> [word_count |-> req.clip_transcription.word_count,
                    duration |-> req.clip_transcription.duration],
     text_threshold |-> TEXT_THRESHOLD,
     speaker_threshold |-> SPEAKER_THRESHOLD]

\* lines 311-330
VerificationResult(req, ms, stage) ==
    [verification_id |-> req.verification_id,
     verified |-> (stage.verification_type = "full"),
     verification_type |-> stage.verification_type,
     matches |-> ms,
     best_match |-> BestOf(ms),
     speaker_verification |-> stage.speaker_verification,
     clip_info |-> [word_count |-> req.clip_transcription.word_count,
                    duration |-> req.clip_transcription.duration],
     text_threshold |-> TEXT_THRESHOLD,
     speaker_threshold |-> SPEAKER_THRESHOLD]

\* line 333: verification_cache[verification_id] = result
Store(stored, result) ==
    IF \E k \in 1..Len(stored) : stored[k].verification_id = result.verification_id
    THEN [k \in 1..Len(stored) |->
             IF stored[k].verification_id = result.verification_id THEN result
             ELSE stored[k]]
    ELSE Append(stored, result)

\* an error that leaves the handler with the temp file still on disk
Raise_KeepsFile(status, detail, temp_file_path) ==
    /\ uploads' = uploads \cup {temp_file_path}
    /\ response' = [status |-> status, detail |-> detail]
    /\ pc' = "responded"

\* lines 340-352: an error leaves the handler: the temp file is removed and
\* the HTTP error is the response
Raise(status, detail, temp_file_path) ==
    /\ uploads' = uploads \ {temp_file_path}
    /\ response' = [status |-> status, detail |-> detail]
    /\ pc' = "responded"

\* lines 249-251 with the scan given up at the first failing entry
AfterTranscribe_Abort(req, name, ok) ==
    IF ok
    THEN [req EXCEPT !.video_transcriptions = Append(@, VideoTranscription(name)),
                     !.idx = @ + 1]
    ELSE [req EXCEPT !.failed = @ \cup {name}, !.idx = Len(req.video_files) + 1]

\* lines 245-251: one turn of the loop over video_files
AfterTranscribe(req, name, ok) ==
    IF ok
    THEN [req EXCEPT !.video_transcriptions = Append(@, VideoTranscription(name)),
                     !.idx = @ + 1]
    ELSE [req EXCEPT !.failed = @ \cup {name}, !.idx = @ + 1]

InitVerify ==
    /\ pc = "idle"
    /\ FmIdle
    /\ video_dir \in VideoListings
    /\ cache \in SUBSET {video_dir[i] : i \in 1..Len(video_dir)}
    /\ uploads = {}
    /\ request = None
    /\ response = None
    /\ verification_cache = <<>>
    /\ background_tasks = <<>>

\* lines 213-241: the upload is saved, the clip transcribed, the videos
\* listed; verification_id is the uuid4 drawn for the request, temp_file_path
\* the name tempfile gave the upload, clips what the upload may say
SaveUpload(verification_id, temp_file_path, clips) ==
    /\ \E clip \in clips, ok \in BOOLEAN :
         LET n == Len(clip)
         IN  IF ~ok
             THEN /\ Raise(400, "Failed to transcribe clip", temp_file_path)
                  /\ request' = [verification_id |-> verification_id, clip |-> clip,
                                 temp_file_path |-> temp_file_path]
             ELSE IF Len(video_dir) = 0
             THEN /\ Raise(404, "No videos found", temp_file_path)
                  /\ request' = [verification_id |-> verification_id, clip |-> clip,
                                 temp_file_path |-> temp_file_path,
                                 clip_transcription |-> Transcription("clip", clip, n)]
             ELSE /\ uploads' = uploads \cup {temp_file_path}
                  /\ request' = [verification_id |-> verification_id, clip |-> clip,
                                 temp_file_path |-> temp_file_path,
                                 clip_transcription |-> Transcription("clip", clip, n),
                                 video_files |-> video_dir,
                                 video_transcriptions |-> <<>>,
                                 failed |-> {},
                                 idx |-> 1]
                  /\ pc' = "scan"
                  /\ UNCHANGED response
    /\ UNCHANGED <<video_dir, cache, verification_cache, background_tasks, fmvars>>

BeginVerify ==
    /\ pc = "idle"
    /\ SaveUpload("id1", "tmp1", SeqsUpTo(Vocabulary, MaxClipWords))

\* lines 245-251: transcribe_with_word_timestamps for the next file; a cached
\* transcription is returned without calling the provider
TranscribeVideo ==
    /\ pc = "scan"
    /\ request.idx <= Len(request.video_files)
    /\ LET name == request.video_files[request.idx]
       IN  IF name \in cache
           THEN /\ request' = AfterTranscribe(request, name, TRUE)
                /\ UNCHANGED cache
           ELSE \E ok \in BOOLEAN :
                  /\ request' = AfterTranscribe(request, name, ok)
                  /\ cache' = IF ok THEN cache \cup {name} ELSE cache
    /\ UNCHANGED <<pc, video_dir, uploads, response, verification_cache,
                   background_tasks, fmvars>>

\* lines 253-260
SearchMatches ==
    /\ pc = "scan"
    /\ request.idx > Len(request.video_files)
    /\ IF Len(request.video_transcriptions) = 0
       THEN /\ Raise(500, "Failed to transcribe any videos", request.temp_file_path)
            /\ UNCHANGED request
       ELSE /\ request' = [request EXCEPT !.idx = @] @@
                          [matches |-> search_all_videos(request.clip_transcription,
                                                         request.video_transcriptions,
                                                         TEXT_THRESHOLD)]
            /\ pc' = "speaker"
            /\ UNCHANGED <<uploads, response>>
    /\ UNCHANGED <<video_dir, cache, verification_cache, background_tasks, fmvars>>

\* lines 262-338
SpeakerVerification ==
    /\ pc = "speaker"
    /\ \E outcome \in SpeakerOutcomes :
         LET ms == request.matches
             stage == SpeakerStage(ms, outcome)
             result == VerificationResult(request, ms, stage)
         IN  /\ (Len(ms) = 0 => outcome.raised)
             /\ request' = request @@
                   [speaker_outcome |-> IF Len(ms) > 0 THEN outcome ELSE None,
                    speaker_call |-> IF Len(ms) > 0
                                     THEN SpeakerCall(BestOf(ms), request.temp_file_path)
                                     ELSE None]
             /\ verification_cache' = Store(verification_cache, result)
             /\ background_tasks' =
                   Append(background_tasks, [task |-> "cleanup_temp_file",
                                             file_path |-> request.temp_file_path])
             /\ response' = [status |-> 200, result |-> result]
             /\ pc' = "responded"
    /\ UNCHANGED <<video_dir, cache, uploads, fmvars>>

\* cleanup_temp_file, run as a background task in a worker thread once the
\* response that scheduled it is sent
CleanupTempFile ==
    /\ Len(background_tasks) > 0
    /\ uploads' = uploads \ {background_tasks[1].file_path}
    /\ background_tasks' = Tail(background_tasks)
    /\ UNCHANGED <<pc, video_dir, cache, request, response, verification_cache, fmvars>>

NextVerify ==
    \/ BeginVerify
    \/ TranscribeVideo
    \/ SearchMatches
    \/ SpeakerVerification
    \/ CleanupTempFile

SpecVerify == InitVerify /\ [][NextVerify]_vars

(***************************************************************************)
(* Properties of POST /verify                                              *)
(***************************************************************************)
Answered == pc = "responded" /\ response.status = 200

ScanFinished ==
    /\ pc \in {"speaker", "responded"}
    /\ "video_files" \in DOMAIN request
    /\ request.idx > Len(request.video_files)

\* C6: the verification type is "not_verified" exactly when search_all_videos
\* returned no match clearing TEXT_THRESHOLD; with at least one match the
\* type is "full" or "content_only", and the match that is reported as
\* best_match and handed to the speaker check is the first of the list,
\* which has the highest similarity.
C6_VerdictDecidedByBestMatch ==
    Answered =>
        LET r == response.result
            ms == request.matches
        IN  /\ r.matches = ms
            /\ \A i \in 1..Len(ms) : Geq(ms[i].similarity, Pct(TEXT_THRESHOLD))
            /\ (r.verification_type = "not_verified") <=> (Len(ms) = 0)
            /\ (Len(ms) = 0) <=>
                  \A i \in 1..Len(request.video_transcriptions) :
                      find_best_match(request.clip_transcription,
                                      request.video_transcriptions[i],
                                      TEXT_THRESHOLD) = None
            /\ Len(ms) = 0 => r.best_match = None /\ r.speaker_verification = None
            /\ Len(ms) > 0 =>
                  /\ r.verification_type \in {"full", "content_only"}
                  /\ r.best_match = ms[1]
                  /\ \A i \in 1..Len(ms) : Geq(ms[1].similarity, ms[i].similarity)
                  /\ request.speaker_call.original_path = ms[1].video_name
                  /\ request.speaker_call.original_start = ms[1].start_time

C6_Witness ==
    /\ Answered
    /\ Len(request.matches) = 2
    /\ Gt(request.matches[1].similarity, request.matches[2].similarity)
    /\ response.result.verification_type = "content_only"
    /\ ~request.speaker_outcome.raised

\* C7: given a content match and a speaker similarity, the type is "full"
\* when the similarity is at least SPEAKER_THRESHOLD (equality included) and
\* "content_only" when it is below.
C7_FullIffSpeakerAtLeastThreshold ==
    (Answered /\ Len(request.matches) > 0 /\ ~request.speaker_outcome.raised) =>
        LET r == response.result
            similarity == request.speaker_outcome.similarity
        IN  /\ r.speaker_verification.similarity = similarity
            /\ similarity >= SPEAKER_THRESHOLD =>
                  r.verification_type = "full" /\ r.verified
            /\ similarity < SPEAKER_THRESHOLD =>
                  r.verification_type = "content_only" /\ ~r.verified

C7_Witness ==
    /\ Answered
    /\ Len(request.matches) > 0
    /\ ~request.speaker_outcome.raised
    /\ request.speaker_outcome.similarity = SPEAKER_THRESHOLD
    /\ response.result.verification_type = "full"

\* the matches of the entries whose transcription did not fail
SurvivingMatches ==
    {find_best_match(request.clip_transcription, VideoTranscription(name),
                     TEXT_THRESHOLD) :
        name \in {request.video_files[i] : i \in 1..Len(request.video_files)}
                 \ request.failed} \ {None}

\* C9 as stated: whatever subset of the entries fails to transcribe, the
\* scan completes and returns exactly the matches of the other entries.
C9_SkipForEverySubset ==
    ScanFinished =>
        /\ "matches" \in DOMAIN request
        /\ {request.matches[i] : i \in 1..Len(request.matches)} = SurvivingMatches
        /\ pc = "responded" => response.status = 200

\* C9 amended: when at least one entry is transcribed the scan completes and
\* returns exactly the matches of the entries that did not fail; when every
\* entry fails the request ends with "Failed to transcribe any videos".
C9_SkipUnlessAllFail ==
    ScanFinished =>
        LET files == {request.video_files[i] : i \in 1..Len(request.video_files)}
        IN  IF request.failed = files
            THEN pc = "responded" /\ response.status = 500
                 /\ response.detail = "Failed to transcribe any videos"
            ELSE /\ "matches" \in DOMAIN request
                 /\ {request.matches[i] : i \in 1..Len(request.matches)}
                       = SurvivingMatches
                 /\ Len(request.matches) = Cardinality(SurvivingMatches)
                 /\ pc = "responded" => response.status = 200

C9_Witness ==
    /\ Answered
    /\ Len(request.video_files) = 2
    /\ request.failed = {request.video_files[1]}
    /\ Len(request.matches) = 1
    /\ request.matches[1].video_name = request.video_files[2]

(***************************************************************************)
(* TextMatcher (src/text_matching.py)                                      *)
(***************************************************************************)
\* The sentence-embedding provider: cosine similarity of two non-empty
\* texts, in percent.  "p2" paraphrases "p", "q2" paraphrases "q".
SemanticSimilarity(text1, text2) ==
    IF text1 = text2 THEN 100
    ELSE IF {text1, text2} = {"p", "p2"} THEN 90
    ELSE IF {text1, text2} = {"q", "q2"} THEN 76
    ELSE 30

\* TextMatcher.calculate_similarity, lines 52-59
text_similarity(text1, text2) ==
    IF text1 = "" \/ text2 = "" THEN 0 ELSE SemanticSimilarity(text1, text2)

\* lines 102-114: the segments at or above the threshold, in database order
RECURSIVE MatchingSegments(_, _, _, _)
MatchingSegments(query_text, database_segments, i, t) ==
    IF i > Len(database_segments) THEN <<>>
    ELSE LET segment == database_segments[i]
             similarity == text_similarity(query_text, segment.text)
             rest == MatchingSegments(query_text, database_segments, i + 1, t)
         IN  IF segment.text # "" /\ Geq(Pct(similarity), Pct(t))
             THEN <<[segment |-> segment, similarity |-> similarity,
                     timestamp |-> segment.timestamp, text |-> segment.text]>>
                  \o rest
             ELSE rest

\* line 117: list.sort(key=similarity, reverse=True) is stable
RECURSIVE InsertByPercent(_, _)
InsertByPercent(sorted, x) ==
    IF sorted = <<>> THEN <<x>>
    ELSE IF x.similarity > Head(sorted).similarity THEN <<x>> \o sorted
    ELSE <<Head(sorted)>> \o InsertByPercent(Tail(sorted), x)

RECURSIVE SortByPercent(_)
SortByPercent(ms) ==
    IF ms = <<>> THEN <<>>
    ELSE InsertByPercent(SortByPercent(SubSeq(ms, 1, Len(ms) - 1)), ms[Len(ms)])

\* TextMatcher.find_matching_segments, lines 97-120
find_matching_segments(query_text, database_segments, t, top_k) ==
    IF query_text = "" THEN <<>>
    ELSE LET sorted == SortByPercent(MatchingSegments(query_text, database_segments, 1, t))
         IN  SubSeq(sorted, 1, Min2(top_k, Len(sorted)))

\* lines 229-236: index (0-based) of the first segment with the timestamp,
\* or -1 for None
FirstIndexAt(db_segments, start_db_timestamp) ==
    LET hits == {i \in 1..Len(db_segments) :
                    db_segments[i].timestamp = start_db_timestamp}
    IN  IF hits = {} THEN -1
        ELSE (CHOOSE i \in hits : \A j \in hits : i <= j) - 1

\* lines 239-261: the loop over query_segments
RECURSIVE BuildFrom(_, _, _, _, _)
BuildFrom(query_segments, db_segments, db_idx, query_idx, t) ==
    IF query_idx >= Len(query_segments) THEN <<>>
    ELSE IF db_idx + query_idx >= Len(db_segments) THEN <<>>
    ELSE LET query_seg == PyAt(query_segments, query_idx)
             db_seg == PyAt(db_segments, db_idx + query_idx)
             similarity == text_similarity(query_seg.text, db_seg.text)
         IN  IF query_seg.text = "" \/ db_seg.text = "" THEN <<>>
             ELSE IF ~Geq(Pct(similarity), Pct(t)) THEN <<>>
             ELSE <<[query_timestamp |-> query_seg.timestamp,
                     db_timestamp |-> db_seg.timestamp,
                     similarity |-> similarity,
                     query_text |-> query_seg.text,
                     db_text |-> db_seg.text,
                     duration |-> db_seg.duration]>>
                  \o BuildFrom(query_segments, db_segments, db_idx, query_idx + 1, t)

\* TextMatcher._build_match_sequence, lines 226-263
build_match_sequence(query_segments, db_segments, start_db_timestamp, t) ==
    LET db_idx == FirstIndexAt(db_segments, start_db_timestamp)
    IN  IF db_idx = -1 THEN <<>>
        ELSE BuildFrom(query_segments, db_segments, db_idx, 0, t)

RECURSIVE SumSimilarity(_)
SumSimilarity(sequence) ==
    IF sequence = <<>> THEN 0
    ELSE Head(sequence).similarity + SumSimilarity(Tail(sequence))

\* np.mean of the similarities, as a fraction
MeanSimilarity(sequence) == <<SumSimilarity(sequence), 100 * Len(sequence)>>

\* lines 187-200: one candidate sequence against the best so far; score =
\* avg_sim * len(sequence), in percent
Consider(best, video_id, sequence, m) ==
    IF Len(sequence) >= m /\ SumSimilarity(sequence) > best.score
    THEN [score |-> SumSimilarity(sequence),
          match |-> [video_id |-> video_id,
                     matches |-> sequence,
                     start_timestamp |-> sequence[1].db_timestamp,
                     end_timestamp |-> sequence[Len(sequence)].db_timestamp
                                       + sequence[Len(sequence)].duration,
                     avg_similarity |-> MeanSimilarity(sequence),
                     num_matches |-> Len(sequence)]]
    ELSE best

\* lines 179-200: the loop over the matches of one query segment
RECURSIVE OverMatches(_, _, _, _, _, _, _, _)
OverMatches(best, video_id, query_segments, db_segments, i, ms, k, tm) ==
    IF k > Len(ms) THEN best
    ELSE OverMatches(
             Consider(best, video_id,
                      build_match_sequence(PyFrom(query_segments, i), db_segments,
                                           ms[k].timestamp, tm.t),
                      tm.m),
             video_id, query_segments, db_segments, i, ms, k + 1, tm)

\* lines 163-200: the loop over the query segments for one video
RECURSIVE OverQuery(_, _, _, _, _, _)
OverQuery(best, video_id, query_segments, db_segments, i, tm) ==
    IF i >= Len(query_segments) THEN best
    ELSE LET query_seg == PyAt(query_segments, i)
             ms == find_matching_segments(query_seg.text, db_segments, tm.t, 10)
         IN  OverQuery(
                 IF query_seg.text = "" \/ ms = <<>> THEN best
                 ELSE OverMatches(best, video_id, query_segments, db_segments,
                                  i, ms, 1, tm),
                 video_id, query_segments, db_segments, i + 1, tm)

\* line 161: the loop over database.items(), in insertion order
RECURSIVE OverDatabase(_, _, _, _, _)
OverDatabase(best, query_segments, database, v, tm) ==
    IF v > Len(database) THEN best
    ELSE OverDatabase(
             OverQuery(best, database[v].video_id, query_segments,
                       database[v].segments, 0, tm),
             query_segments, database, v + 1, tm)

\* "high" granted from two consecutive segments
Confidence_HighAtTwo(best_match) ==
    IF Geq(best_match.avg_similarity, Pct(85)) /\ best_match.num_matches >= 2
    THEN "high"
    ELSE IF Geq(best_match.avg_similarity, Pct(75)) /\ best_match.num_matches >= 2
    THEN "medium"
    ELSE "low"

\* lines 202-209
Confidence(best_match) ==
    IF Geq(best_match.avg_similarity, Pct(85)) /\ best_match.num_matches >= 3
    THEN "high"
    ELSE IF Geq(best_match.avg_similarity, Pct(75)) /\ best_match.num_matches >= 2
    THEN "medium"
    ELSE "low"

\* TextMatcher.find_best_match_in_database, lines 158-211
find_best_match_in_database(query_segments, database, t, m) ==
    LET best == OverDatabase([score |-> 0, match |-> None], query_segments,
                             database, 1, [t |-> t, m |-> m])
    IN  IF best.match = None THEN None
        ELSE best.match @@ [confidence |-> Confidence(best.match)]

(***************************************************************************)
(* HybridVerifier (src/hybrid_verification.py)                             *)
(***************************************************************************)
TEXT_SIMILARITY_THRESHOLD == 75
SPEAKER_SIMILARITY_THRESHOLD == 90
MIN_CONSECUTIVE_MATCHES == 2
SEGMENT_DURATION == 30
EMBEDDING_TOLERANCE == 5

MaxClipSegments == 3
MaxHybridVideos == 2

\* AudioTranscriber.transcribe_video: one segment per SEGMENT_DURATION
Transcripts(texts) ==
    [k \in 1..Len(texts) |->
        [timestamp |-> SEGMENT_DURATION * (k - 1),
         duration |-> SEGMENT_DURATION,
         text |-> texts[k]]]

\* AudioEmbedder.generate_embeddings: one embedding per INTERVAL_SECONDS
Embeddings(voice, duration) ==
    [k \in 1..(duration \div INTERVAL_SECONDS) |->
        [timestamp |-> INTERVAL_SECONDS * (k - 1), embedding |-> voice]]

\* AudioEmbedder.calculate_similarity of two embeddings, in percent
embedding_similarity(emb1, emb2) ==
    IF emb1.embedding = emb2.embedding THEN 100
    ELSE IF {emb1.embedding, emb2.embedding} = {"v", "w"} THEN 90
    ELSE 60

HybridCatalogue ==
    [h1 |-> [ipfs_cid |-> "h1", title |-> "h1",
             transcripts |-> Transcripts(<<"p", "q", "r">>),
             fingerprints |-> Embeddings("v", 90)],
     h2 |-> [ipfs_cid |-> "h2", title |-> "h2",
             transcripts |-> Transcripts(<<"p2", "q2">>),
             fingerprints |-> Embeddings("w", 60)],
     h3 |-> [ipfs_cid |-> "h3", title |-> "h3",
             fingerprints |-> Embeddings("v", 30)],
     h4 |-> [ipfs_cid |-> "h4", title |-> "h4",
             transcripts |-> Transcripts(<<"q", "r">>)]]

HybridDatabases ==
    {[i \in 1..Len(d) |-> HybridCatalogue[d[i]]] :
        d \in {e \in SeqsUpTo(DOMAIN HybridCatalogue, MaxHybridVideos) :
                  \A i, j \in 1..Len(e) : i # j => e[i] # e[j]}}

ClipTexts == {"", "p", "q", "r"}
ClipVoices == {"v", "w", "x"}
EmbedderOutcomes == {"raise", "embeddings", "no embeddings"}

\* lines 118-124: text_database, in the order of the videos
RECURSIVE TextDatabase(_)
TextDatabase(db_videos) ==
    IF db_videos = <<>> THEN <<>>
    ELSE LET video == Head(db_videos)
         IN  (IF "transcripts" \in DOMAIN video
              THEN <<[video_id |-> video.ipfs_cid, segments |-> video.transcripts]>>
              ELSE <<>>) \o TextDatabase(Tail(db_videos))

\* lines 159-163
MatchedVideo(db_videos, video_id) ==
    LET hits == {i \in 1..Len(db_videos) : db_videos[i].ipfs_cid = video_id}
    IN  IF hits = {} THEN None
        ELSE db_videos[CHOOSE i \in hits : \A j \in hits : i <= j]

Abs(x) == IF x < 0 THEN -x ELSE x

\* HybridVerifier._find_embedding_at_time, lines 268-277
find_embedding_at_time(embeddings, timestamp) ==
    IF embeddings = <<>> THEN None
    ELSE LET dist(i) == Abs(embeddings[i].timestamp - timestamp)
             closest == CHOOSE i \in 1..Len(embeddings) :
                           \A j \in 1..Len(embeddings) :
                               dist(i) < dist(j) \/ (dist(i) = dist(j) /\ i <= j)
         IN  IF dist(closest) <= EMBEDDING_TOLERANCE THEN embeddings[closest]
             ELSE None

\* lines 180-192: the similarities of the first five matched segments
RECURSIVE SpeakerSimilaritiesFrom(_, _, _, _)
SpeakerSimilaritiesFrom(segment_matches, i, clip_embeddings, db_embeddings) ==
    IF i > Min2(5, Len(segment_matches)) THEN <<>>
    ELSE LET clip_emb == find_embedding_at_time(clip_embeddings,
                                                segment_matches[i].query_timestamp)
             db_emb == find_embedding_at_time(db_embeddings,
                                              segment_matches[i].db_timestamp)
             rest == SpeakerSimilaritiesFrom(segment_matches, i + 1,
                                             clip_embeddings, db_embeddings)
         IN  IF clip_emb # None /\ db_emb # None
             THEN <<[similarity |-> embedding_similarity(clip_emb, db_emb)]>> \o rest
             ELSE rest

\* lines 197-206
SpeakerMatch(speaker_similarities) ==
    IF speaker_similarities = <<>>
    THEN [similarity |-> Zero, verified |-> FALSE,
          threshold |-> SPEAKER_SIMILARITY_THRESHOLD]
    ELSE [similarity |-> MeanSimilarity(speaker_similarities),
          verified |-> Geq(MeanSimilarity(speaker_similarities),
                           Pct(SPEAKER_SIMILARITY_THRESHOLD)),
          threshold |-> SPEAKER_SIMILARITY_THRESHOLD]

\* lines 223-238
FinalVerdict(speaker_verified, content_confidence) ==
    IF speaker_verified /\ content_confidence = "high"
    THEN [verified |-> TRUE, confidence |-> "high", explanation |-> "VERIFIED HIGH"]
    ELSE IF speaker_verified /\ content_confidence = "medium"
    THEN [verified |-> TRUE, confidence |-> "medium", explanation |-> "VERIFIED MEDIUM"]
    ELSE IF content_confidence = "high" /\ ~speaker_verified
    THEN [verified |-> FALSE, confidence |-> "low",
          explanation |-> "speaker verification failed"]
    ELSE [verified |-> FALSE, confidence |-> "low", explanation |-> "Weak match"]

\* lines 243-264
HybridResult(matched_video, content_match, speaker_match) ==
    FinalVerdict(speaker_match.verified, content_match.confidence) @@
    [matched_video |-> [video_id |-> matched_video.ipfs_cid,
                        title |-> matched_video.title,
                        ipfs_cid |-> matched_video.ipfs_cid],
     content_match |-> [similarity |-> content_match.avg_similarity,
                        start_timestamp |-> content_match.start_timestamp,
                        end_timestamp |-> content_match.end_timestamp,
                        num_matches |-> content_match.num_matches,
                        matched_segments |-> content_match.matches],
     speaker_match |-> speaker_match]

(***************************************************************************)
(* SpecHybrid: one call of HybridVerifier.verify_clip                      *)
(***************************************************************************)
InitHybrid ==
    /\ pc = "hybrid"
    /\ db \in HybridDatabases
    /\ db_file = db
    /\ clip_fingerprints = <<>>
    /\ threshold = 85
    /\ min_consecutive_matches = 2
    /\ matches = <<>>
    /\ timestamps = <<>>
    /\ verdict = "none"
    /\ ApiIdle

\* AudioTranscriber.transcribe_video, lines 149-176: a segment whose audio
\* extraction or transcription raises is stored with the empty text
HeardTexts(texts, failed_segments) ==
    [k \in 1..Len(texts) |-> IF k \in failed_segments THEN "" ELSE texts[k]]

\* AudioTranscriber.transcribe_video, lines 128-142: the number of segments
\* of a video of the given duration (seconds)
SegmentCount(video_duration) ==
    Cardinality({i \in 0..(video_duration \div SEGMENT_DURATION) :
                    i * SEGMENT_DURATION < video_duration})

\* AudioTranscriber.transcribe_video, lines 128-176
transcribe_video(video_duration, texts) ==
    [k \in 1..SegmentCount(video_duration) |->
        [timestamp |-> SEGMENT_DURATION * (k - 1),
         duration |-> Min2(SEGMENT_DURATION,
                           video_duration - SEGMENT_DURATION * (k - 1)),
         text |-> texts[k]]]

\* clips of 0, 10 and 15 seconds and of 45, 75, ... seconds
ClipDurations ==
    {0, 10, 15} \cup {SEGMENT_DURATION * k + 15 : k \in 1..(MaxClipSegments - 1)}

\* lines 104-110: STAGE 1, the clip is transcribed.  failed_segments records
\* the segments for which the transcription provider raised.
TranscribeClip ==
    /\ pc = "hybrid"
    /\ \E duration \in ClipDurations, voice \in ClipVoices :
        \E texts \in [1..SegmentCount(duration) -> ClipTexts] :
        \E failed_segments \in SUBSET {k \in 1..Len(texts) : texts[k] = ""} :
         LET clip_transcripts ==
                 transcribe_video(duration, HeardTexts(texts, failed_segments))
         IN  /\ request' = [clip_path |-> [duration |-> duration, texts |-> texts,
                                           voice |-> voice],
                            failed_segments |-> failed_segments,
                            clip_transcripts |-> clip_transcripts]
             /\ IF clip_transcripts = <<>>
                THEN /\ response' = [verified |-> FALSE,
                                     reason |-> "Failed to transcribe clip"]
                     /\ pc' = "returned"
                ELSE /\ pc' = "content"
                     /\ UNCHANGED response
    /\ UNCHANGED <<fmvars, video_dir, cache, uploads, verification_cache,
                   background_tasks>>

\* lines 118-169: STAGE 2, the database is searched
ContentMatching ==
    /\ pc = "content"
    /\ LET db_videos == db
           text_database == TextDatabase(db_videos)
           content_match ==
               find_best_match_in_database(request.clip_transcripts, text_database,
                                           TEXT_SIMILARITY_THRESHOLD,
                                           MIN_CONSECUTIVE_MATCHES)
       IN  IF text_database = <<>>
           THEN /\ response' = [verified |-> FALSE,
                                reason |-> "No transcripts in database"]
                /\ pc' = "returned"
                /\ UNCHANGED request
           ELSE IF content_match = None
           THEN /\ response' = [verified |-> FALSE,
                                reason |-> "No matching content found in database",
                                stage_failed |-> "content_matching"]
                /\ pc' = "returned"
                /\ UNCHANGED request
           ELSE IF MatchedVideo(db_videos, content_match.video_id) = None
           THEN /\ response' = [verified |-> FALSE,
                                reason |-> "Matched video not found in database"]
                /\ pc' = "returned"
                /\ UNCHANGED request
           ELSE /\ request' = request @@
                      [content_match |-> content_match,
                       matched_video |-> MatchedVideo(db_videos, content_match.video_id)]
                /\ pc' = "speaker_stage"
                /\ UNCHANGED response
    /\ UNCHANGED <<fmvars, video_dir, cache, uploads, verification_cache,
                   background_tasks>>

\* lines 177-264: STAGE 3 and the final verdict.  generate_embeddings is
\* called outside any try block: what it raises leaves verify_clip.
SpeakerMatching ==
    /\ pc = "speaker_stage"
    /\ \E outcome \in EmbedderOutcomes :
         LET duration == request.clip_path.duration
             clip_embeddings == IF outcome = "embeddings"
                                THEN Embeddings(request.clip_path.voice, duration)
                                ELSE <<>>
             db_embeddings == IF "fingerprints" \in DOMAIN request.matched_video
                              THEN request.matched_video.fingerprints
                              ELSE <<>>
             speaker_similarities ==
                 SpeakerSimilaritiesFrom(request.content_match.matches, 1,
                                         clip_embeddings, db_embeddings)
         IN  /\ request' = request @@ [embedder |-> outcome]
             /\ response' =
                   IF outcome = "raise"
                   THEN [raised |-> "generate_embeddings"]
                   ELSE HybridResult(request.matched_video, request.content_match,
                                     SpeakerMatch(speaker_similarities))
    /\ pc' = "returned"
    /\ UNCHANGED <<fmvars, video_dir, cache, uploads, verification_cache,
                   background_tasks>>

NextHybrid ==
    \/ TranscribeClip
    \/ ContentMatching
    \/ SpeakerMatching

SpecHybrid == InitHybrid /\ [][NextHybrid]_vars

\* C8: with a content match found, a failure of speaker-evidence extraction
\* still ends the verification with an unverified, content-only result that
\* carries a speaker record marked as not verified; the failure does not
\* leave the call.
C8_SpeakerFailureDegrades ==
    (pc = "returned" /\ "embedder" \in DOMAIN request /\ request.embedder = "raise") =>
        /\ "raised" \notin DOMAIN response
        /\ "verified" \in DOMAIN response
        /\ ~response.verified
        /\ "speaker_match" \in DOMAIN response
        /\ ~response.speaker_match.verified

\* every segment of the clip failed to transcribe
ClipTranscriptionFailed ==
    /\ "failed_segments" \in DOMAIN request
    /\ Len(request.clip_transcripts) > 0
    /\ request.failed_segments = 1..Len(request.clip_transcripts)

\* C11: a clip whose transcription failed ends the verification with a
\* failure reason of its own, never with the outcome of a clip that was
\* transcribed and matched nothing.
C11_ClipFailureDistinctFromNoMatch ==
    (pc = "returned" /\ ClipTranscriptionFailed) =>
        ~("reason" \in DOMAIN response
          /\ response.reason = "No matching content found in database")

(***************************************************************************)
(* SpecLocalize: SlidingWindowMatcher.find_best_match on bounded inputs    *)
(***************************************************************************)
MaxRefWords == 3

\* similarity_threshold in percent; -100 and 150 lie outside [0, 1]
LocalizerThresholds == {-100, 0, 80, 100, 150}

ValidThreshold(t) == 0 <= t /\ t <= 100

\* the word list of the reference: all words timed, the last one missing,
\* or none (response.words absent, word_transcription.py line 204)
TimedCounts(r) == {r, IF r > 0 THEN r - 1 ELSE 0, 0}

LocalizerInputs ==
    {[clip |-> c, ref |-> v, timed |-> n, t |-> t] :
        c \in SeqsUpTo(Vocabulary, MaxClipWords),
        v \in SeqsUpTo(Vocabulary, MaxRefWords),
        n \in 0..MaxRefWords,
        t \in LocalizerThresholds}

InitLocalize ==
    /\ pc = "localize"
    /\ FmIdle
    /\ video_dir = <<>>
    /\ cache = {}
    /\ uploads = {}
    /\ \E i \in LocalizerInputs \cup
                {[clip |-> <<"c", "d">>, ref |-> <<"a", "b", "c", "d", "e">>,
                  timed |-> 5, t |-> 80]} :
         /\ i.timed \in TimedCounts(Len(i.ref))
         /\ request = [clip_transcription |-> Transcription("clip", i.clip, Len(i.clip)),
                       video_transcription |-> Transcription("ref", i.ref, i.timed),
                       similarity_threshold |-> i.t]
    /\ response = None
    /\ verification_cache = <<>>
    /\ background_tasks = <<>>

Localize ==
    /\ pc = "localize"
    /\ response' = find_best_match(request.clip_transcription,
                                   request.video_transcription,
                                   request.similarity_threshold)
    /\ pc' = "localized"
    /\ UNCHANGED <<fmvars, video_dir, cache, uploads, request, verification_cache,
                   background_tasks>>

NextLocalize == Localize

SpecLocalize == InitLocalize /\ [][NextLocalize]_vars

\* the quantities of section "Sliding-Window Localizer": q query words, r
\* reference words, the window at offset i and its score
QueryWords == request.clip_transcription.normalized_text
RefWords == request.video_transcription.normalized_text
Offsets == 0..(Len(RefWords) - Len(QueryWords))
Window(i) == SubSeq(RefWords, i + 1, i + Len(QueryWords))
Score(i) == calculate_text_similarity(Join(QueryWords), Join(Window(i)))
Slidable == 0 < Len(QueryWords) /\ Len(QueryWords) <= Len(RefWords)
IsMatch(r) == "start_word_index" \in DOMAIN r
\* the earliest offset carrying the maximum score
WinningOffset ==
    CHOOSE i \in Offsets :
        /\ \A j \in Offsets : ~Gt(Score(j), Score(i))
        /\ \A j \in Offsets : j < i => Gt(Score(i), Score(j))

\* C12: a returned match sits at an offset of [0, r-q] whose score is the
\* maximum over all offsets, the earliest one when several share it.
C12_EarliestMaximumWins ==
    (pc = "localized" /\ Slidable /\ IsMatch(response)) =>
        /\ response.start_word_index = WinningOffset
        /\ response.similarity = Score(WinningOffset)

\* C13: with 0 < q <= r and a best score of at least t, a match is returned,
\* from the start of the reference word at the winning offset to the end of
\* the word at offset + q - 1, with the text of that window.
C13_BestAtLeastThresholdIsMatched ==
    (pc = "localized" /\ Slidable
        /\ Geq(Score(WinningOffset), Pct(request.similarity_threshold))) =>
        /\ IsMatch(response)
        /\ response.start_word_index = WinningOffset
        /\ response.end_word_index = WinningOffset + Len(QueryWords) - 1
        /\ response.matched_text = Join(Window(WinningOffset))

\* C14: no match is returned when the query is longer than the reference
\* (whatever the threshold), when the query or the reference has no words,
\* and when the best window score is strictly below the threshold.
C14_NoMatchCases ==
    pc = "localized" =>
        /\ Len(QueryWords) > Len(RefWords) => response = None
        /\ (Len(QueryWords) = 0 \/ Len(RefWords) = 0) => response = None
        /\ (Slidable /\ Gt(Pct(request.similarity_threshold), Score(WinningOffset)))
              => response = None

C14_Witness ==
    /\ pc = "localized"
    /\ Slidable
    /\ Len(request.video_transcription.words) = Len(RefWords)
    /\ request.similarity_threshold = 100
    /\ Score(WinningOffset) = <<8, 10>>
    /\ response = None

\* the offsets at which the reference window equals the query
ExactOffsets == {i \in Offsets : Window(i) = QueryWords}

VerbatimAt(video_transcription) ==
    LET q == request.clip_transcription.normalized_text
        r == video_transcription.normalized_text
    IN  {k \in 0..(Len(r) - Len(q)) : Len(q) > 0 /\ SubSeq(r, k + 1, k + Len(q)) = q}

\* the transcribed references, in scan order, that hold the clip verbatim
\* with a timed word for every word of the earliest such window
VerbatimReferences ==
    {i \in 1..Len(request.video_transcriptions) :
        LET v == request.video_transcriptions[i]
        IN  /\ VerbatimAt(v) # {}
            /\ \E k \in VerbatimAt(v) :
                  /\ \A j \in VerbatimAt(v) : k <= j
                  /\ k + Len(request.clip_transcription.normalized_text) <= Len(v.words)}

SpeakerPassed ==
    /\ Answered
    /\ "speaker_outcome" \in DOMAIN request
    /\ request.speaker_outcome # None
    /\ ~request.speaker_outcome.raised
    /\ request.speaker_outcome.similarity >= SPEAKER_THRESHOLD

ExactExcerpt ==
    /\ "clip_transcripts" \in DOMAIN request
    /\ Len(request.clip_transcripts) = 1
    /\ request.failed_segments = {}
    /\ \E v \in 1..Len(db) :
          /\ "transcripts" \in DOMAIN db[v]
          /\ "fingerprints" \in DOMAIN db[v]
          /\ \A e \in 1..Len(db[v].fingerprints) :
                db[v].fingerprints[e].embedding = request.clip_path.voice
          /\ \E k \in 1..Len(db[v].transcripts) :
                /\ db[v].transcripts[k].text # ""
                /\ db[v].transcripts[k].text = request.clip_transcripts[1].text

\* C17: an exact 10-second excerpt of a database video is returned as
\* verified with confidence "high", and an exact 15-second excerpt as
\* verified.
C17_ExactExcerptVerified ==
    (pc = "returned" /\ ExactExcerpt /\ request.clip_path.duration \in {10, 15}) =>
        /\ "verified" \in DOMAIN response
        /\ response.verified
        /\ request.clip_path.duration = 10 => response.confidence = "high"

\* a result of verify_clip that reports a content match
HasContentMatch == "content_match" \in DOMAIN response

StrongContent ==
    /\ response.content_match.similarity[1] * 100
          >= 85 * response.content_match.similarity[2]
    /\ response.content_match.num_matches >= 3

\* C18 as stated: every outcome carries a confidence tier: "high" only with
\* content similarity >= 0.85, run length >= 3 and a passed speaker check,
\* "medium" only with both thresholds cleared below the "high" bounds, "low"
\* otherwise, the outcomes without a content match included.
C18_EveryOutcomeHasTier ==
    (pc = "returned" /\ "raised" \notin DOMAIN response) =>
        /\ "confidence" \in DOMAIN response
        /\ response.confidence \in {"high", "medium", "low"}
        /\ ~response.verified => response.confidence = "low"

\* C18 amended: an outcome with a content match carries "high" exactly when
\* content similarity >= 0.85, run length >= 3 and the speaker check passed,
\* "medium" exactly when the speaker check passed below those bounds, and
\* "low" (not verified) otherwise; an outcome without a content match is not
\* verified and carries no confidence tier.
C18_TiersOfMatchedOutcomes ==
    (pc = "returned" /\ "raised" \notin DOMAIN response) =>
        IF HasContentMatch
        THEN /\ (response.confidence = "high")
                   <=> (response.speaker_match.verified /\ StrongContent)
             /\ (response.confidence = "medium")
                   <=> (response.speaker_match.verified /\ ~StrongContent)
             /\ (response.confidence = "low") <=> ~response.speaker_match.verified
             /\ response.verified <=> response.confidence \in {"high", "medium"}
             /\ response.content_match.similarity[1] * 100
                   >= TEXT_SIMILARITY_THRESHOLD * response.content_match.similarity[2]
             /\ response.content_match.num_matches >= MIN_CONSECUTIVE_MATCHES
        ELSE /\ "confidence" \notin DOMAIN response
             /\ ~response.verified

C18_Witness ==
    /\ pc = "returned"
    /\ HasContentMatch
    /\ response.confidence = "medium"
    /\ response.content_match.num_matches = 2
    /\ response.content_match.similarity = <<166, 200>>
    /\ response.speaker_match.similarity = <<180, 200>>

\* C19: a similarity threshold outside [0, 1] is rejected with an error; no
\* matching is ever carried out with it.
C19_InvalidThresholdRejected ==
    (pc = "localized" /\ ~ValidThreshold(request.similarity_threshold)) =>
        /\ "raised" \in DOMAIN response
        /\ response.raised = "InvalidThresholdError"

(***************************************************************************)
(* SpecSimilarity: VideoVerifier.calculate_similarity on bounded inputs    *)
(***************************************************************************)
MaxFpInts == 2

HashValues == {<<>>, <<"a">>, <<"a", "b">>, <<"b", "b">>}

\* fingerprint records with and without the 'fingerprint' and 'hash' keys
FingerprintRecords ==
    {[fingerprint |-> f, hash |-> h] :
        f \in SeqsUpTo(FpValues, MaxFpInts), h \in HashValues}
    \cup {[fingerprint |-> f] : f \in SeqsUpTo(FpValues, MaxFpInts)}
    \cup {[hash |-> h] : h \in HashValues}
    \cup {[timestamp |-> 0]}

InitSimilarity ==
    /\ pc = "compare"
    /\ FmIdle
    /\ video_dir = <<>>
    /\ cache = {}
    /\ uploads = {}
    /\ request \in [fp1 : FingerprintRecords, fp2 : FingerprintRecords]
    /\ response = None
    /\ verification_cache = <<>>
    /\ background_tasks = <<>>

CalculateSimilarity ==
    /\ pc = "compare"
    /\ LET similarity == calculate_similarity(request.fp1, request.fp2)
       IN  response' = IF similarity = "ZeroDivisionError"
                       THEN [raised |-> "ZeroDivisionError"]
                       ELSE [similarity |-> similarity]
    /\ pc' = "compared"
    /\ UNCHANGED <<fmvars, video_dir, cache, uploads, request, verification_cache,
                   background_tasks>>

NextSimilarity == CalculateSimilarity

SpecSimilarity == InitSimilarity /\ [][NextSimilarity]_vars

EitherArrayEmpty ==
    GetFingerprint(request.fp1) = <<>> \/ GetFingerprint(request.fp2) = <<>>

\* C20: the similarity of any two fingerprint records is a value of [0, 1],
\* it is 0 whenever either fingerprint array is empty, and no error is
\* raised.
C20_SimilarityInUnitRangeNoError ==
    pc = "compared" =>
        /\ "similarity" \in DOMAIN response
        /\ response.similarity[2] > 0
        /\ 0 <= response.similarity[1]
        /\ response.similarity[1] <= response.similarity[2]
        /\ EitherArrayEmpty => response.similarity[1] = 0

BothArraysNonEmpty ==
    GetFingerprint(request.fp1) # <<>> /\ GetFingerprint(request.fp2) # <<>>

\* C21: for non-empty fingerprint arrays, the similarity of an array with
\* itself is 1.0 and the similarity of a and b equals that of b and a, also
\* when the arrays differ in length (the first min(len) elements compared).
C21_ReflexiveAndSymmetric ==
    (pc = "compared" /\ BothArraysNonEmpty) =>
        /\ "similarity" \in DOMAIN response
        /\ response.similarity = calculate_similarity(request.fp2, request.fp1)
        /\ GetFingerprint(request.fp1) = GetFingerprint(request.fp2) =>
               response.similarity[1] = response.similarity[2]

C21_Witness ==
    /\ pc = "compared"
    /\ GetFingerprint(request.fp1) = <<255>>
    /\ GetFingerprint(request.fp2) = <<254, 65280>>
    /\ response = [similarity |-> <<31, 32>>]

(***************************************************************************)
(* Order of the matches returned by VideoVerifier.find_matches             *)
(***************************************************************************)
\* the matches in the order the scan appended them, before the sort
Discovered ==
    ScanAllVideos(db, 1, clip_fingerprints, threshold, min_consecutive_matches,
                  <<>>).matches

DiscoveryIndex(mt) == CHOOSE k \in 1..Len(Discovered) : Discovered[k] = mt

SameConfidence(x, y) == Geq(x.confidence, y.confidence) /\ Geq(y.confidence, x.confidence)

\* C22: the returned matches are the discovered ones sorted by confidence in
\* descending order, and matches of equal confidence keep the order in which
\* they were discovered.
C22_SortedDescendingStable ==
    Scanned =>
        /\ Len(matches) = Len(Discovered)
        /\ \A i \in 1..Len(matches) : \E k \in 1..Len(Discovered) : Discovered[k] = matches[i]
        /\ \A i, j \in 1..Len(matches) :
               i < j =>
                   /\ Geq(matches[i].confidence, matches[j].confidence)
                   /\ SameConfidence(matches[i], matches[j]) =>
                          DiscoveryIndex(matches[i]) < DiscoveryIndex(matches[j])

\* two references matched with the same confidence
C22_Witness ==
    /\ Scanned
    /\ Len(matches) = 2
    /\ matches[1].video_id # matches[2].video_id
    /\ SameConfidence(matches[1], matches[2])

(***************************************************************************)
(* SpecStore: VideoDatabase.add_video (src/video_processor.py) called any  *)
(* number of times on a database that starts empty                         *)
(***************************************************************************)
\* paths of video files: directory and file name
VideoPaths ==
    {[dir |-> "download", name |-> "x.mp4"],
     [dir |-> "archive", name |-> "x.mp4"],
     [dir |-> "download", name |-> "y.mp4"],
     [dir |-> "download", name |-> "z.mp4"]}

StoreFingerprints == {<<>>, Fingerprints(<<255>>)}
IpfsCids == {None, [cid |-> "QmGiven"]}

\* generate_video_id: "video_" and the first 16 hex digits of the MD5 of the
\* file name; the directory plays no part
generate_video_id(video_path) == <<"video", "md5", video_path.name>>

\* a store that finds nothing
video_exists_Never(videos, video_id) == FALSE

video_exists(videos, video_id) ==
    \E i \in 1..Len(videos) : videos[i].id = video_id

\* lines 102-124: the entry built for a video
VideoEntry(video_path, fingerprints, ipfs_cid) ==
    [id |-> generate_video_id(video_path),
     ipfs_cid |-> IF ipfs_cid = None THEN [cid |-> <<"Qm", "sha256", video_path.name>>]
                  ELSE ipfs_cid,
     title |-> video_path.name,
     fingerprints |-> fingerprints]

InitStore ==
    /\ pc = "store"
    /\ FmIdle
    /\ ApiIdle

\* VideoDatabase.add_video; readable = AudioFingerprinter finds the file and
\* get_duration succeeds on it
AddVideo ==
    /\ pc = "store"
    /\ \E video_path \in VideoPaths, fingerprints \in StoreFingerprints,
          ipfs_cid \in IpfsCids, readable \in BOOLEAN :
          LET video_id == generate_video_id(video_path)
          IN  /\ request' = [video_path |-> video_path, fingerprints |-> fingerprints,
                             ipfs_cid |-> ipfs_cid]
              /\ IF video_exists(db, video_id)
                 THEN /\ response' = [raised |-> "ValueError"]
                      /\ UNCHANGED <<db, db_file>>
                 ELSE IF ~readable
                 THEN /\ response' = [raised |-> "RuntimeError"]
                      /\ UNCHANGED <<db, db_file>>
                 ELSE /\ db' = Append(db, VideoEntry(video_path, fingerprints, ipfs_cid))
                      /\ db_file' = db'
                      /\ response' = [video_id |-> video_id]
    /\ UNCHANGED <<pc, clip_fingerprints, threshold, min_consecutive_matches, matches,
                   timestamps, verdict, video_dir, cache, uploads, verification_cache,
                   background_tasks>>

NextStore == AddVideo

SpecStore == InitStore /\ [][NextStore]_vars

StoredIdsDistinct(videos) ==
    \A i, j \in 1..Len(videos) : i # j => videos[i].id # videos[j].id

\* the id the last call generated was already stored before the call
IdAlreadyPresent ==
    \E i \in 1..Len(db) : db[i].id = generate_video_id(request'.video_path)

\* C23: the ids stored in the video list and in the database file are always
\* distinct; an add whose generated id is already present raises an error
\* and leaves the list and the file unchanged, and an add that returns
\* appends exactly one entry, which carries the generated id.
C23_DistinctIdsDuplicateRejected ==
    /\ [](StoredIdsDistinct(db) /\ StoredIdsDistinct(db_file))
    /\ [][/\ IdAlreadyPresent =>
                 /\ "raised" \in DOMAIN response'
                 /\ db' = db
                 /\ db_file' = db_file
          /\ "video_id" \in DOMAIN response' =>
                 /\ Len(db') = Len(db) + 1
                 /\ SubSeq(db', 1, Len(db)) = db
                 /\ db'[Len(db')].id = response'.video_id
                 /\ response'.video_id = generate_video_id(request'.video_path)
                 /\ db_file' = db']_vars

\* a second file named x.mp4 was refused while x.mp4 and y.mp4 are stored
C23_Witness ==
    /\ pc = "store"
    /\ Len(db) = 2
    /\ request.video_path = [dir |-> "archive", name |-> "x.mp4"]
    /\ db[1].id = generate_video_id(request.video_path)
    /\ response = [raised |-> "ValueError"]
    /\ db_file = db

(***************************************************************************)
(* The windows handed to SpeakerVerifier.verify_speaker by POST /verify    *)
(***************************************************************************)
SpeakerChecked ==
    /\ pc = "responded"
    /\ "speaker_call" \in DOMAIN request
    /\ request.speaker_call # None

MatchedWindow == response.result.best_match.end_time - response.result.best_match.start_time

\* C24: the speaker check analyses two windows of the same duration, the
\* smaller of 10 s and the length of the best match's window; the clip window
\* starts at 0 and the reference window at the best match's start_time, so
\* the analysed duration exceeds neither 10 s nor the matched window.
C24_SpeakerWindowsBounded ==
    SpeakerChecked =>
        LET call == request.speaker_call
        IN  /\ call.clip_duration = call.original_duration
            /\ call.clip_duration =
                  (IF MatchedWindow < MAX_SPEAKER_SECONDS THEN MatchedWindow
                   ELSE MAX_SPEAKER_SECONDS)
            /\ call.clip_start = 0
            /\ call.original_start = response.result.best_match.start_time
            /\ call.original_path = response.result.best_match.video_name
            /\ call.clip_duration <= MAX_SPEAKER_SECONDS
            /\ call.clip_duration <= MatchedWindow

\* a matched window longer than 10 s, of which 10 s were analysed
C24_Witness ==
    /\ SpeakerChecked
    /\ MatchedWindow > MAX_SPEAKER_SECONDS
    /\ request.speaker_call.clip_duration = MAX_SPEAKER_SECONDS
    /\ request.speaker_call.original_start > 0

(***************************************************************************)
(* SpecVideos: POST /videos/add, DELETE /videos/{video_name} and           *)
(* POST /preprocess of api_server.py, with the transcription tasks they    *)
(* queue.  The handlers are coroutines without an await around their file  *)
(* operations, so each runs as one step; a background task is a plain      *)
(* function, run in a worker thread after the response, so its steps       *)
(* interleave with later requests and with other tasks.                    *)
(*                                                                         *)
(* Here video_dir holds the files as records [name, video] (video = the    *)
(* recording the file contains) and cache holds records [name, video]: the *)
(* transcription of that recording, stored under the cache path of name.   *)
(***************************************************************************)
MaxStoredFiles == 2
MaxTasks == 2

Recordings == {"A", "B"}

\* file.filename as uploaded, and the names add_video derives from it
\* (counter 0 is x.mp4, counter k is x_k.mp4)
FileName(counter) == [base |-> "x", suffix |-> ".mp4", counter |-> counter]
FileNames == {FileName(k) : k \in 0..(MaxStoredFiles - 1)}

FileExists(files, name) == \E i \in 1..Len(files) : files[i].name = name
FileAt(files, name) == CHOOSE i \in 1..Len(files) : files[i].name = name
RemoveFile(files, name) == SelectSeq(files, LAMBDA f : f.name # name)

\* lines 412-420: the first name not taken in VIDEO_DIRECTORY
RECURSIVE UniqueName(_, _)
UniqueName(files, counter) ==
    IF FileExists(files, FileName(counter)) THEN UniqueName(files, counter + 1)
    ELSE FileName(counter)

\* WordTranscriber.get_cache_path / load_from_cache / save_to_cache
Cached(entries, name) == {c \in entries : c.name = name}
save_to_cache(entries, name, video) ==
    (entries \ Cached(entries, name)) \cup {[name |-> name, video |-> video]}

\* a queued task: the paths it still has to transcribe, its position in
\* transcribe_with_word_timestamps for the first of them, and the recording
\* whose audio it has extracted
Task(kind, paths) == [task |-> kind, paths |-> paths, at |-> "load", audio |-> "none"]

\* the task leaves transcribe_with_word_timestamps for its current path
NextPath(tasks, i) ==
    IF Len(tasks[i].paths) > 1
    THEN [tasks EXCEPT ![i] = [@ EXCEPT !.paths = Tail(@), !.at = "load", !.audio = "none"]]
    ELSE [k \in 1..(Len(tasks) - 1) |-> IF k < i THEN tasks[k] ELSE tasks[k + 1]]

InitVideos ==
    /\ pc = "serving"
    /\ FmIdle
    /\ ApiIdle

\* POST /videos/add, lines 376-458 (a valid extension)
add_video ==
    /\ pc = "serving"
    /\ Len(video_dir) < MaxStoredFiles
    /\ Len(background_tasks) < MaxTasks
    /\ \E video \in Recordings :
          LET video_path == UniqueName(video_dir, 0)
          IN  /\ video_dir' = Append(video_dir, [name |-> video_path, video |-> video])
              /\ background_tasks' =
                    Append(background_tasks, Task("transcribe_video", <<video_path>>))
              /\ request' = [endpoint |-> "add_video", video |-> video]
              /\ response' = [status |-> 200, filename |-> video_path]
    /\ UNCHANGED <<pc, cache, uploads, verification_cache, fmvars>>

\* DELETE /videos/{video_name}, lines 460-503
delete_video ==
    /\ pc = "serving"
    /\ \E video_name \in FileNames :
          /\ request' = [endpoint |-> "delete_video", video_name |-> video_name]
          /\ IF ~FileExists(video_dir, video_name)
             THEN /\ response' = [status |-> 404, filename |-> video_name]
                  /\ UNCHANGED <<video_dir, cache>>
             ELSE /\ video_dir' = RemoveFile(video_dir, video_name)
                  /\ cache' = cache \ Cached(cache, video_name)
                  /\ response' = [status |-> 200, filename |-> video_name]
    /\ UNCHANGED <<pc, uploads, verification_cache, background_tasks, fmvars>>

\* POST /preprocess, lines 506-540
preprocess_videos ==
    /\ pc = "serving"
    /\ Len(background_tasks) < MaxTasks
    /\ request' = [endpoint |-> "preprocess_videos"]
    /\ IF Len(video_dir) = 0
       THEN /\ response' = [status |-> 404, filename |-> FileName(0)]
            /\ UNCHANGED background_tasks
       ELSE /\ background_tasks' =
                  Append(background_tasks,
                         Task("process_all", [i \in 1..Len(video_dir) |-> video_dir[i].name]))
            /\ response' = [status |-> 200, filename |-> FileName(0)]
    /\ UNCHANGED <<pc, video_dir, cache, uploads, verification_cache, fmvars>>

\* transcribe_with_word_timestamps, lines 178-182: the cache is looked up
LoadFromCache ==
    /\ pc = "serving"
    /\ \E i \in 1..Len(background_tasks) :
          /\ background_tasks[i].at = "load"
          /\ background_tasks' =
                IF Cached(cache, background_tasks[i].paths[1]) # {}
                THEN NextPath(background_tasks, i)
                ELSE [background_tasks EXCEPT ![i] = [@ EXCEPT !.at = "extract"]]
    /\ UNCHANGED <<pc, video_dir, cache, uploads, request, response, verification_cache,
                   fmvars>>

\* lines 184-186: ffmpeg reads the file; it fails when the file is gone
ExtractAudio ==
    /\ pc = "serving"
    /\ \E i \in 1..Len(background_tasks) :
          LET path == background_tasks[i].paths[1]
          IN  /\ background_tasks[i].at = "extract"
              /\ background_tasks' =
                    IF FileExists(video_dir, path)
                    THEN [background_tasks EXCEPT ![i] =
                             [@ EXCEPT !.at = "transcribe",
                                       !.audio = video_dir[FileAt(video_dir, path)].video]]
                    ELSE NextPath(background_tasks, i)
    /\ UNCHANGED <<pc, video_dir, cache, uploads, request, response, verification_cache,
                   fmvars>>

\* lines 188-242: the provider transcribes the audio (or raises) and the
\* result is saved under the cache path of the video
TranscribeAndSave ==
    /\ pc = "serving"
    /\ \E i \in 1..Len(background_tasks), ok \in BOOLEAN :
          /\ background_tasks[i].at = "transcribe"
          /\ cache' = IF ok
                      THEN save_to_cache(cache, background_tasks[i].paths[1],
                                         background_tasks[i].audio)
                      ELSE cache
          /\ background_tasks' = NextPath(background_tasks, i)
    /\ UNCHANGED <<pc, video_dir, uploads, request, response, verification_cache, fmvars>>

NextVideos ==
    \/ add_video
    \/ delete_video
    \/ preprocess_videos
    \/ LoadFromCache
    \/ ExtractAudio
    \/ TranscribeAndSave

SpecVideos == InitVideos /\ [][NextVideos]_vars

\* the last request answered was a successful DELETE
DeleteSucceeded ==
    /\ request # None
    /\ request.endpoint = "delete_video"
    /\ response.status = 200

\* C25: once DELETE /videos/{video_name} has answered success, neither the
\* file nor a cached transcription of that path exists, whatever the
\* background transcription tasks do; so a cached transcription found under
\* the path of a file is always the transcription of that file's recording.
C25_DeleteLeavesNoCachedTranscript ==
    /\ DeleteSucceeded =>
           /\ ~FileExists(video_dir, request.video_name)
           /\ Cached(cache, request.video_name) = {}
    /\ \A c \in cache : \A i \in 1..Len(video_dir) :
           video_dir[i].name = c.name => video_dir[i].video = c.video

(***************************************************************************)
(* SpecScan: VideoVerifier.find_matches over thresholds from 0 to 1 and    *)
(* fingerprints that differ in every bit                                   *)
(***************************************************************************)
\* 0 and 4294967295 (written -1) differ in all 32 bits (similarity 0.0); 255
\* differs from them in 8 resp. 24 bits
ScanFpValues == {0, -1, 255}

ScanAudio ==
    [s1 |-> <<-1>>,
     s2 |-> <<0, 255>>,
     s3 |-> <<>>,
     s4 |-> <<-1, -1, 0>>]

ScanThresholds == {0, 50, 100}

ScanDatabases ==
    {d \in SeqsUpTo(DOMAIN ScanAudio, MaxVideos) :
        \A i, j \in 1..Len(d) : i # j => d[i] # d[j]}

InitScan ==
    /\ pc = "find"
    /\ ApiIdle
    /\ \E d \in ScanDatabases :
          db = [i \in 1..Len(d) |->
                   [id |-> d[i], title |-> d[i], fingerprints |-> Fingerprints(ScanAudio[d[i]])]]
    /\ db_file = db
    /\ \E raw \in SeqsUpTo(ScanFpValues, MaxClipLen) : clip_fingerprints = Fingerprints(raw)
    /\ threshold \in ScanThresholds
    /\ min_consecutive_matches \in MinRuns
    /\ matches = <<>>
    /\ timestamps = <<>>
    /\ verdict = "none"

SpecScan == InitScan /\ [][NextFM]_vars

\* the similarity of the clip feature at index i with the reference feature at
\* index j is the largest over the reference
IsArgmax(video, i, j) ==
    \A k \in 0..(Len(video.fingerprints) - 1) :
        Geq(calculate_similarity(PyAt(clip_fingerprints, i), PyAt(video.fingerprints, j)),
            calculate_similarity(PyAt(clip_fingerprints, i), PyAt(video.fingerprints, k)))

\* C26: for every threshold in [0, 1] the scan returns a list, and each Match
\* in it has fingerprint_matches >= max(1, min_consecutive_matches) and
\* confidence >= threshold, starts at a reference index within
\* [0, len(reference) - 1] that is a best position for the run's first clip
\* feature, and covers only positions inside the clip and the reference.
C26_EmittedRunsWellFormed ==
    /\ pc # "raised"
    /\ Scanned =>
         \A mt \in MatchSet :
           LET video == VideoOf(mt)
               i == ClipIdx(mt)
               j == RefIdx(mt)
               L == mt.fingerprint_matches
           IN  /\ L >= 1
               /\ L >= min_consecutive_matches
               /\ Geq(mt.confidence, Pct(threshold))
               /\ 0 <= j /\ j <= Len(video.fingerprints) - 1
               /\ IsArgmax(video, i, j)
               /\ 0 <= i /\ i + L <= Len(clip_fingerprints)
               /\ j + L <= Len(video.fingerprints)

\* C27: for a threshold in [0, 1], every match returned by find_best_match
\* starts at an offset of [0, r - q], ends q - 1 words later, has a
\* similarity of at least the threshold, carries the text of the reference
\* window at those indices, and has start_time <= end_time.
C27_ReturnedMatchWellFormed ==
    (pc = "localized" /\ ValidThreshold(request.similarity_threshold)
        /\ IsMatch(response)) =>
        /\ 0 <= response.start_word_index
        /\ response.start_word_index <= Len(RefWords) - Len(QueryWords)
        /\ response.end_word_index = response.start_word_index + Len(QueryWords) - 1
        /\ Geq(response.similarity, Pct(request.similarity_threshold))
        /\ response.matched_text = Join(Window(response.start_word_index))
        /\ response.start_time <= response.end_time

\* the timestamps only decrease along the list
OnlyDecreasing(ts) == \A i \in 1..(Len(ts) - 1) : ts[i + 1] < ts[i]

\* C28: the gap is the signed difference of consecutive reference
\* timestamps: a list whose timestamps only decrease is CONTINUOUS however
\* far it jumps back, and EDITED is reported only when some forward jump
\* exceeds 300 s.
C28_SignedGap ==
    pc = "spliced" =>
      /\ OnlyDecreasing(timestamps) => verdict = "CONTINUOUS"
      /\ verdict = "EDITED" =>
           \E i \in 1..(Len(timestamps) - 1) :
              timestamps[i + 1] > timestamps[i]
                /\ timestamps[i + 1] - timestamps[i] > GAP_THRESHOLD

\* a jump of 1200 s backwards was classified
C28_Witness ==
    /\ pc = "spliced"
    /\ timestamps = <<1400, 200>>
    /\ verdict = "CONTINUOUS"

(***************************************************************************)
(* SpecSession: several POST /verify requests, one after the other, with   *)
(* GET /verify/{verification_id} between them.  verify_clip has no await   *)
(* in its body, so requests do not interleave; the cleanup tasks run in    *)
(* worker threads and do.  Request n gets verification_id n and temp file  *)
(* n (both are drawn fresh by uuid4 and tempfile).                         *)
(***************************************************************************)
MaxRequests == 2

SessionClips == {<<>>, <<"a">>, <<"b", "c">>}
SessionListings == {<<>>, <<"r1">>, <<"r4", "r3">>}

InitSession ==
    /\ pc = "idle"
    /\ FmIdle
    /\ video_dir \in SessionListings
    /\ cache = {}
    /\ uploads = {}
    /\ request = None
    /\ response = None
    /\ verification_cache = <<>>
    /\ background_tasks = <<>>

\* the next POST /verify arrives
StartRequest ==
    /\ pc \in {"idle", "responded"}
    /\ LET n == IF request = None \/ "verification_id" \notin DOMAIN request THEN 1
                ELSE request.verification_id + 1
       IN  /\ n <= MaxRequests
           /\ SaveUpload(n, n, SessionClips)

\* GET /verify/{verification_id}, lines 355-372
get_verification_result ==
    /\ pc = "responded"
    /\ \E verification_id \in 1..MaxRequests :
          response' =
             IF \E k \in 1..Len(verification_cache) :
                    verification_cache[k].verification_id = verification_id
             THEN [status |-> 200,
                   result |-> verification_cache[
                                 CHOOSE k \in 1..Len(verification_cache) :
                                    verification_cache[k].verification_id = verification_id]]
             ELSE [status |-> 404, detail |-> "Verification result not found"]
    /\ UNCHANGED <<pc, video_dir, cache, uploads, request, verification_cache,
                   background_tasks, fmvars>>

NextSession ==
    \/ StartRequest
    \/ TranscribeVideo
    \/ SearchMatches
    \/ SpeakerVerification
    \/ CleanupTempFile
    \/ get_verification_result

SpecSession == InitSession /\ [][NextSession]_vars

\* the shape of a stored result
ResultConsistent(result) ==
    /\ result.verified <=> result.verification_type = "full"
    /\ result.verification_type = "not_verified" <=> Len(result.matches) = 0
    /\ Len(result.matches) = 0 <=> result.best_match = None
    /\ result.best_match = None <=> result.speaker_verification = None
    /\ Len(result.matches) > 0 => result.best_match = result.matches[1]

\* C29: every result stored in verification_cache has verified iff
\* verification_type "full", verification_type "not_verified" iff no matches
\* iff no best_match iff no speaker_verification, and best_match the first
\* match; a result is stored, under the id of the request, only in the step
\* that answers the request with success, and a stored result is never
\* changed or removed afterwards.
C29_StoredResultsConsistentAndStable ==
    /\ [](\A k \in 1..Len(verification_cache) : ResultConsistent(verification_cache[k]))
    /\ [][/\ Len(verification_cache') >= Len(verification_cache)
          /\ \A k \in 1..Len(verification_cache) :
                 verification_cache'[k] = verification_cache[k]
          /\ verification_cache' # verification_cache =>
                 /\ Len(verification_cache') = Len(verification_cache) + 1
                 /\ response'.status = 200
                 /\ response'.result = verification_cache'[Len(verification_cache')]
                 /\ response'.result.verification_id = request.verification_id
          /\ (response' # response /\ response'.status # 200) =>
                 verification_cache' = verification_cache]_vars

\* a stored result survived a later request that stored a second one
C29_Witness ==
    /\ Len(verification_cache) = 2
    /\ verification_cache[1].verification_type = "not_verified"
    /\ verification_cache[2].verification_type = "full"
    /\ verification_cache[1].verification_id # verification_cache[2].verification_id

(***************************************************************************)
(* SpecSessionLive: the sessions of SpecSession in which a handler that    *)
(* has started runs to its response and a scheduled background task is     *)
(* run: the event loop keeps running the coroutine of verify_clip, and     *)
(* Starlette runs the tasks of a response after sending it.  No fairness   *)
(* is assumed of the clients (StartRequest, get_verification_result).      *)
(* The step that ends the scan loop is named by what it does to pc: in     *)
(* NextSession the steps of LeaveScan that change pc are the steps of      *)
(* SearchMatches (LeaveScanIsSearchMatches), and its enabling condition    *)
(* does not compute the search.                                            *)
(***************************************************************************)
\* lines 253-260: the loop over video_files is over and the handler goes on
LeaveScan ==
    /\ pc = "scan"
    /\ request.idx > Len(request.video_files)
    /\ pc' \in {"speaker", "responded"}

LeaveScanIsSearchMatches == [][(LeaveScan /\ pc' # pc) <=> SearchMatches]_vars

SpecSessionLive ==
    /\ InitSession
    /\ [][NextSession]_vars
    /\ WF_vars(TranscribeVideo)
    /\ WF_pc(LeaveScan)
    /\ WF_vars(SpeakerVerification)
    /\ WF_vars(CleanupTempFile)

\* the handler of POST /verify leaves with a response in this step
HandlerLeaves == pc # "responded" /\ pc' = "responded"

CleanupScheduled(tasks, file_path) ==
    \E k \in 1..Len(tasks) :
        tasks[k] = [task |-> "cleanup_temp_file", file_path |-> file_path]

====
